---- MODULE Spec2Model ----
(***************************************************************************)
(* A state-machine model of the Linux-compatible system-call layer:        *)
(* System V shared memory (api/src/imp/mm/shm.rs, core/src/shm.rs),        *)
(* getdents64 (api/src/imp/fs/ctl.rs), epoll, poll and select and their    *)
(* wait loop (api/src/imp/fs/io_mpx), copy_file_range and splice           *)
(* (api/src/imp/fs/io.rs), execve (api/src/imp/task/execve.rs,             *)
(* core/src/mm.rs), setpgid (api/src/imp/task/thread.rs), the locks held   *)
(* at writes to user memory and by the shm calls of several threads, and   *)
(* /proc/self/exe (core/src/file).  Each subsystem has its own next-state  *)
(* relation and specification over the shared variable tuple.              *)
(***************************************************************************)
EXTENDS Integers, Sequences, FiniteSets, TLC

VARIABLES
    \* ---- shared memory (core/src/shm.rs) ----
    segments,     \* ShmManager.segments : id -> segment object (Arc)
    key_to_id,    \* ShmManager.key_to_id : key -> id
    next_id,      \* ShmManager.next_id
    shmObjs,      \* the live ShmSegment objects (Arc strong count > 0)
    nextObj,      \* serial number of the next ShmSegment::new attempt
    pagesFree,    \* free pages of the global page allocator
    attached,     \* ProcessShmData.attached, per process : vaddr -> ShmAttach
    aspace,       \* per process : the mapped pages of its address space
    removedIds,   \* history: ids that ShmManager::remove took out
    \* ---- getdents64 on one directory fd (api/src/imp/fs/ctl.rs) ----
    dirEntries,   \* the directory's entries in VFS iteration order
    dirPos,       \* entries the directory iterator has handed out
    last_dirent,  \* Directory.last_dirent : the one-slot carry
    userBuf,      \* the records in the caller's buffer
    emitted,      \* history: records of the calls that returned a byte count
    \* ---- fd table, epoll and poll (api/src/imp/fs/io_mpx) ----
    fdKind,       \* fd table : fd -> "none", "file" or "epoll"
    fdPoll,       \* what poll() of the file at an fd returns
    interest,     \* EpollInstance.events of the instance at an fd : fd -> EpollEvent
    lastSet,      \* history: per instance, the event of the last successful
                  \* ADD or MOD of each fd not deleted since
    delSet,       \* history: per instance, the fds whose last successful
                  \* epoll_ctl was a DEL
    evbuf,        \* the caller's epoll_event array
    pollfds,      \* the caller's pollfd array
    selsets,      \* the caller's three fd_set buffers : the fds whose bit is set
    \* ---- the wait loop of the multiplexing calls, step by step ----
    now,          \* wall_time(), in ms
    wcall,        \* the multiplexing call in progress, or the last one
    \* ---- copy_file_range and splice (api/src/imp/fs/io.rs) ----
    ioFds,        \* fd table : fd -> the file-like object at the fd, or none
    inodes,       \* the bytes of each regular file
    openFiles,    \* File objects : the file opened and the current position
    pipeBuf,      \* the ring buffer of the pipe
    uoff,         \* the caller's off_t cells that offset pointers point to
    \* ---- processes, groups and sessions (api/src/imp/task/thread.rs) ----
    processes,    \* process table : pid -> parent, group and session, or absent
    groups,       \* process-group table : pgid -> the session of the group, or 0
    \* ---- the locks a system call holds, step by step ----
    lcall,        \* the system call in progress and its position
    held,         \* the locks the call holds
    \* ---- execve (api/src/imp/task/execve.rs, core/src/mm.rs) ----
    files,        \* the file system : path -> contents of the file, or its node
    user_areas,   \* the areas mapped in the caller's address space
    taskName,     \* the name of the calling task
    exe_path,     \* ProcessData.exe_path
    tf,           \* the saved trap frame : ip and sp
    nthreads,     \* threads of the calling process
    ret           \* the last system call and its result

shmVars == <<segments, key_to_id, next_id, shmObjs, nextObj, pagesFree,
             attached, aspace, removedIds>>

dirVars == <<dirEntries, dirPos, last_dirent, userBuf, emitted>>

mpxVars == <<fdKind, fdPoll, interest, lastSet, delSet, evbuf, pollfds, selsets>>

waitVars == <<now, wcall>>

ioVars == <<ioFds, inodes, openFiles, pipeBuf, uoff>>

pgVars == <<processes, groups>>

lockVars == <<lcall, held>>

execVars == <<files, user_areas, taskName, exe_path, tf, nthreads>>

vars == <<segments, key_to_id, next_id, shmObjs, nextObj, pagesFree,
          attached, aspace, removedIds,
          dirEntries, dirPos, last_dirent, userBuf, emitted,
          fdKind, fdPoll, interest, lastSet, delSet, evbuf, pollfds, selsets,
          now, wcall,
          ioFds, inodes, openFiles, pipeBuf, uoff,
          processes, groups, lcall, held,
          files, user_areas, taskName, exe_path, tf, nthreads, ret>>

(***************************************************************************)
(* Bounds of the model.                                                    *)
(***************************************************************************)
NProcs == 1       \* processes issuing shm calls
MaxObjs == 2      \* segment creations attempted in one behaviour
TotalPages == 2   \* pages the page allocator can hand out
APages == 2       \* pages of one user address space
MaxNattch == 2    \* cap on a segment's attach count

(***************************************************************************)
(* Program constants.                                                      *)
(***************************************************************************)
PAGE_SIZE_4K == 4096
IPC_PRIVATE == 0
IPC_RMID == 0
IPC_SET == 1
IPC_STAT == 2
SHM_RND == 8192
SHM_RDONLY == 4096
IPC_CREAT == 512
IPC_EXCL == 1024
MAX_SHM_SIZE == 1073741824
I32_MAX == 2147483647
MAX_ATTEMPTS == 1000
MAX_NATTCH == 65536

Procs == 1..NProcs

\* A finite function as a set of pairs, and its update/removal.
MapPut(f, k, v) == [x \in DOMAIN f \cup {k} |-> IF x = k THEN v ELSE f[x]]
MapDel(f, k) == [x \in DOMAIN f \ {k} |-> f[x]]
EmptyMap == [x \in {} |-> 0]

RECURSIVE BitAnd(_, _)
\* a & b on naturals
BitAnd(a, b) ==
    IF a = 0 \/ b = 0 THEN 0
    ELSE (IF a % 2 = 1 /\ b % 2 = 1 THEN 1 ELSE 0) + 2 * BitAnd(a \div 2, b \div 2)

align_up_4k(n) == ((n + PAGE_SIZE_4K - 1) \div PAGE_SIZE_4K) * PAGE_SIZE_4K

\* The record of a finished system call: its name, the error kind ("OK" on
\* success) and the value returned (-1 with an error).
Call(op, err, val) == [op |-> op, err |-> err, val |-> val]
NoCall == Call("none", "OK", 0)

\* flags & bit # 0, for a single-bit mask
HasBit(flags, bit) == (flags \div bit) % 2 = 1

(***************************************************************************)
(* The page allocator: alloc_pages(n) fails when fewer than n pages are    *)
(* free.  A request for 0 pages may be refused or granted.                 *)
(***************************************************************************)
AllocOutcomes(npages) ==
    IF npages = 0 THEN {TRUE, FALSE}
    ELSE {npages <= pagesFree}

\* The shared-memory state as one record, with the result of a call: the
\* outcome of a call is this record changed where the call changes it.
ShmState ==
    [segments |-> segments, key_to_id |-> key_to_id, next_id |-> next_id,
     shmObjs |-> shmObjs, nextObj |-> nextObj, pagesFree |-> pagesFree,
     attached |-> attached, aspace |-> aspace, removedIds |-> removedIds,
     err |-> "OK", val |-> 0]
ShmFail(e) == [ShmState EXCEPT !.err = e, !.val = 0 - 1]
ShmApply(op, r) ==
    /\ segments' = r.segments
    /\ key_to_id' = r.key_to_id
    /\ next_id' = r.next_id
    /\ shmObjs' = r.shmObjs
    /\ nextObj' = r.nextObj
    /\ pagesFree' = r.pagesFree
    /\ attached' = r.attached
    /\ aspace' = r.aspace
    /\ removedIds' = r.removedIds
    /\ ret' = Call(op, r.err, r.val)
    /\ UNCHANGED <<dirVars, mpxVars, waitVars, ioVars, pgVars, lockVars, execVars>>

\* ShmSegment::new : the object built for (id, key, size, mode)
ShmSegmentNew(id, key, size, mode) ==
    [id |-> id, key |-> key, size |-> align_up_4k(size), segsz |-> size,
     nattch |-> 0, marked |-> FALSE, uid |-> 0, gid |-> 0, mode |-> mode]

\* one turn of the loop on next_id: wrapping_add(1) in 32 bits, and 1 in place
\* of a result that is not positive
NextId(nid) ==
    LET n1 == IF nid = I32_MAX THEN 0 - I32_MAX - 1 ELSE nid + 1
    IN  IF n1 <= 0 THEN 1 ELSE n1

\* next_id after k turns of the loop, for a next_id in 1..i32::MAX
Probe(nid, k) == IF k <= I32_MAX - nid THEN nid + k ELSE k - (I32_MAX - nid)

\* the loop of ShmManager::alloc_id over the ids of the registry (the keys of
\* segments), entered with attempts failed probes : <<ok, id, next_id'>>.
\* The loop returns at the first turn whose id is free, and gives up when
\* MAX_ATTEMPTS probes have failed.
AllocIdLoop(ids, nid, attempts) ==
    LET turns == MAX_ATTEMPTS - attempts
    IN  IF \E k \in 0..(turns - 1) : Probe(nid, k) \notin ids
        THEN LET k == CHOOSE i \in 0..(turns - 1) :
                          /\ Probe(nid, i) \notin ids
                          /\ \A j \in 0..(i - 1) : Probe(nid, j) \in ids
             IN  <<TRUE, Probe(nid, k), NextId(Probe(nid, k))>>
        ELSE <<FALSE, 0, Probe(nid, turns)>>

\* a segments.len() test that lets the registry fill up to i32::MAX segments
alloc_id_until_full(ids, nid) ==
    IF Cardinality(ids) >= I32_MAX THEN <<FALSE, 0, nid>>
    ELSE AllocIdLoop(ids, nid, 0)

\* ShmManager::alloc_id over the ids of the registry
alloc_id(ids, nid) ==
    IF Cardinality(ids) >= I32_MAX \div 2 THEN <<FALSE, 0, nid>>
    ELSE AllocIdLoop(ids, nid, 0)

(***************************************************************************)
(* Address space of one process (axmm collaborator): pages 1..APages, the  *)
(* base is PAGE_SIZE_4K, address 0 lies below it.                          *)
(***************************************************************************)
AspaceBase == PAGE_SIZE_4K
AspaceEnd == (APages + 1) * PAGE_SIZE_4K
PagesOf(start, size) ==
    {pg \in 0..(APages + 2) : start <= pg * PAGE_SIZE_4K /\ pg * PAGE_SIZE_4K < start + size}
InAspace(start, size) == AspaceBase <= start /\ start + size <= AspaceEnd

\* AddrSpace::contains_range as the shmat contract uses it: the hint range is
\* already mapped
contains_range(mapped, start, size) ==
    InAspace(start, size) /\ size > 0 /\ PagesOf(start, size) \subseteq mapped

\* AddrSpace::find_free_area : the lowest free aligned range at or after the
\* hint, or -1
find_free_area(mapped, hint, size) ==
    LET from == IF align_up_4k(hint) < AspaceBase THEN AspaceBase ELSE align_up_4k(hint)
        cands == {pg \in 1..APages :
                     /\ pg * PAGE_SIZE_4K >= from
                     /\ InAspace(pg * PAGE_SIZE_4K, size)
                     /\ PagesOf(pg * PAGE_SIZE_4K, size) \cap mapped = {}}
    IN  IF cands = {} THEN 0 - 1
        ELSE PAGE_SIZE_4K * (CHOOSE pg \in cands : \A q \in cands : pg <= q)

\* AddrSpace::map_linear : "OK" or the error kind
map_linear(mapped, vaddr, size) ==
    IF vaddr % PAGE_SIZE_4K # 0 \/ ~InAspace(vaddr, size) THEN "EINVAL"
    ELSE IF PagesOf(vaddr, size) \cap mapped # {} THEN "EEXIST"
    ELSE "OK"

(***************************************************************************)
(* Reference counting of the segment objects (Arc<ShmSegment>): an object  *)
(* lives while the registry or an attachment record holds it; Drop returns *)
(* its pages to the allocator.                                             *)
(***************************************************************************)
Referenced(segs, att) ==
    {segs[i] : i \in DOMAIN segs}
        \cup UNION {{att[p][a].obj : a \in DOMAIN att[p]} : p \in DOMAIN att}

\* a Drop that gives back the pages of the requested size, rounded down
DropPagesRoundedDown(seg) == seg.segsz \div PAGE_SIZE_4K

\* Drop for ShmSegment : the pages one dropped object gives back
DropPages(seg) == seg.size \div PAGE_SIZE_4K

RECURSIVE SumDrop(_, _)
SumDrop(objs, S) ==
    IF S = {} THEN 0
    ELSE LET o == CHOOSE x \in S : TRUE
         IN  DropPages(objs[o]) + SumDrop(objs, S \ {o})

\* The objects and the allocator after every unreferenced object is dropped.
Collect(objs, segs, att, free) ==
    LET dead == DOMAIN objs \ Referenced(segs, att)
    IN  <<[o \in DOMAIN objs \ dead |-> objs[o]], free + SumDrop(objs, dead)>>

(***************************************************************************)
(* ShmManager::remove, and the Drop of the objects it releases             *)
(***************************************************************************)
\* a remove that leaves the key of the segment in key_to_id
ManagerRemoveKeepingKey(st, id) ==
    IF id \in DOMAIN st.segments
    THEN LET segs1 == MapDel(st.segments, id)
             gc == Collect(st.shmObjs, segs1, st.attached, st.pagesFree)
         IN  [st EXCEPT !.segments = segs1,
                        !.removedIds = @ \cup {id},
                        !.shmObjs = gc[1],
                        !.pagesFree = gc[2]]
    ELSE [st EXCEPT !.err = "ENOENT", !.val = 0 - 1]

ManagerRemove(st, id) ==
    IF id \in DOMAIN st.segments
    THEN LET key == st.shmObjs[st.segments[id]].key
             segs1 == MapDel(st.segments, id)
             gc == Collect(st.shmObjs, segs1, st.attached, st.pagesFree)
         IN  [st EXCEPT !.segments = segs1,
                        !.key_to_id = IF key # IPC_PRIVATE THEN MapDel(@, key) ELSE @,
                        !.removedIds = @ \cup {id},
                        !.shmObjs = gc[1],
                        !.pagesFree = gc[2]]
    ELSE [st EXCEPT !.err = "ENOENT", !.val = 0 - 1]

(***************************************************************************)
(* sys_shmget / ShmManager::get_or_create                                  *)
(***************************************************************************)
\* a lookup by key that hands out a segment marked for deletion
ExistingKeyIgnoringMark(key, flags) ==
    LET existing_id == key_to_id[key]
    IN  IF HasBit(flags, IPC_EXCL) THEN ShmFail("EEXIST")
        ELSE IF existing_id \in DOMAIN segments
             THEN [ShmState EXCEPT !.val = existing_id]
             ELSE [ShmFail("ENOENT") EXCEPT !.key_to_id = MapDel(@, key)]

\* the branch for a key found in key_to_id
ExistingKey(key, flags) ==
    LET existing_id == key_to_id[key]
    IN  IF HasBit(flags, IPC_EXCL) THEN ShmFail("EEXIST")
        ELSE IF existing_id \in DOMAIN segments
             THEN IF shmObjs[segments[existing_id]].marked THEN ShmFail("ENOENT")
                  ELSE [ShmState EXCEPT !.val = existing_id]
             ELSE [ShmFail("ENOENT") EXCEPT !.key_to_id = MapDel(@, key)]

\* alloc_id, ShmSegment::new and the insertion of the new segment
CreateSegment(key, size, flags, allocOk) ==
    LET a == alloc_id(DOMAIN segments, next_id)
        id == a[2]
        seg == ShmSegmentNew(id, key, size, flags % 512)
    IN  IF ~a[1] \/ ~allocOk
        THEN [ShmFail("ENOMEM") EXCEPT !.next_id = a[3], !.nextObj = @ + 1]
        ELSE [ShmState EXCEPT !.next_id = a[3],
                              !.nextObj = @ + 1,
                              !.pagesFree = @ - seg.size \div PAGE_SIZE_4K,
                              !.shmObjs = MapPut(@, nextObj, seg),
                              !.segments = MapPut(@, id, nextObj),
                              !.key_to_id = IF key = IPC_PRIVATE THEN @ ELSE MapPut(@, key, id),
                              !.val = id]

\* a get_or_create that looks at IPC_CREAT before the key index
get_or_create_creating_first(key, size, flags, allocOk) ==
    IF key = IPC_PRIVATE THEN CreateSegment(key, size, flags, allocOk)
    ELSE IF HasBit(flags, IPC_CREAT) THEN CreateSegment(key, size, flags, allocOk)
    ELSE IF key \in DOMAIN key_to_id THEN ExistingKey(key, flags)
    ELSE ShmFail("ENOENT")

\* ShmManager::get_or_create
get_or_create(key, size, flags, allocOk) ==
    IF key = IPC_PRIVATE THEN CreateSegment(key, size, flags, allocOk)
    ELSE IF key \in DOMAIN key_to_id THEN ExistingKey(key, flags)
    ELSE IF HasBit(flags, IPC_CREAT) THEN CreateSegment(key, size, flags, allocOk)
    ELSE ShmFail("ENOENT")

sys_shmget(key, size, flags, allocOk) ==
    IF size > MAX_SHM_SIZE \/ (size = 0 /\ key # IPC_PRIVATE) THEN ShmFail("EINVAL")
    ELSE get_or_create(key, size, flags, allocOk)

(***************************************************************************)
(* sys_shmat                                                               *)
(***************************************************************************)
\* a check_permissions that looks at the triple of the others only
check_permissions_as_other(seg, uid, gid, access) ==
    BitAnd(seg.mode, access) = access

\* ShmSegment::check_permissions
check_permissions(seg, uid, gid, access) ==
    IF uid = seg.uid THEN BitAnd(seg.mode, access * 64) = access * 64
    ELSE IF gid = seg.gid THEN BitAnd(seg.mode, access * 8) = access * 8
    ELSE BitAnd(seg.mode, access) = access

\* ShmSegment::validate (the physical address of an allocated segment is
\* never 0)
validate(seg) ==
    /\ ~(seg.nattch > MAX_NATTCH)
    /\ ~(seg.size < seg.segsz \/ seg.size < align_up_4k(seg.segsz))
    /\ ~(seg.segsz = 0 \/ seg.segsz > MAX_SHM_SIZE)
    /\ ~(seg.size = 0 \/ seg.size > MAX_SHM_SIZE)

\* a validate_segment that forgets the marked-for-deletion test
validate_segment_unmarked(seg, shmflg) ==
    IF ~validate(seg) THEN "EINVAL"
    ELSE IF ~check_permissions(seg, 0, 0, IF HasBit(shmflg, SHM_RDONLY) THEN 4 ELSE 6)
         THEN "EACCES"
    ELSE "OK"

\* validate_segment : the error kind, or "OK"
validate_segment(seg, shmflg) ==
    IF seg.marked THEN "EIDRM"
    ELSE IF ~validate(seg) THEN "EINVAL"
    ELSE IF ~check_permissions(seg, 0, 0, IF HasBit(shmflg, SHM_RDONLY) THEN 4 ELSE 6)
         THEN "EACCES"
    ELSE "OK"

\* ShmSegment::inc_attach / dec_attach
inc_attach(seg) == [seg EXCEPT !.nattch = @ + 1]
dec_attach(seg) == [seg EXCEPT !.nattch = IF @ > 0 THEN @ - 1 ELSE @]

\* the argument checks of sys_shmat made before the segment is looked up
ShmatArgCheck(shmid, shmaddr, shmflg) ==
    IF shmid < 0 THEN "EINVAL"
    ELSE IF ~HasBit(shmflg, SHM_RND) /\ shmaddr # 0 /\ shmaddr % PAGE_SIZE_4K # 0
         THEN "EINVAL"
    ELSE "OK"

\* the address sys_shmat chooses once the attach count is bumped:
\* <<error kind or "OK", vaddr>>
ShmatChoose(mapped, shmaddr, shmflg, size) ==
    IF HasBit(shmflg, SHM_RND)
    THEN IF shmaddr = 0 THEN <<"EINVAL", 0>>
         ELSE <<"OK", shmaddr - (shmaddr % PAGE_SIZE_4K)>>
    ELSE IF contains_range(mapped, shmaddr, size) THEN <<"EINVAL", 0>>
    ELSE LET v1 == find_free_area(mapped, shmaddr, size)
             v2 == IF v1 >= 0 THEN v1 ELSE find_free_area(mapped, AspaceBase, size)
         IN  IF v2 < 0 THEN <<"ENOMEM", 0>> ELSE <<"OK", v2>>

\* a sys_shmat that keeps the bumped attach count when the mapping fails
ShmatAttachKeepingCount(p, shmid, shmaddr, shmflg) ==
    LET o == segments[shmid]
        seg == shmObjs[o]
        bumped == [ShmState EXCEPT !.shmObjs[o] = inc_attach(seg)]
        ch == ShmatChoose(aspace[p], shmaddr, shmflg, seg.size)
        m == map_linear(aspace[p], ch[2], seg.size)
    IN  IF ch[1] # "OK" THEN [bumped EXCEPT !.err = ch[1], !.val = 0 - 1]
        ELSE IF m # "OK"
        THEN [bumped EXCEPT !.err = m, !.val = 0 - 1]
        ELSE [bumped EXCEPT !.aspace[p] = @ \cup PagesOf(ch[2], seg.size),
                            !.attached[p] = MapPut(@, ch[2], [id |-> shmid, obj |-> o]),
                            !.val = ch[2]]

\* sys_shmat from the bump of the attach count on
ShmatAttach(p, shmid, shmaddr, shmflg) ==
    LET o == segments[shmid]
        seg == shmObjs[o]
        bumped == [ShmState EXCEPT !.shmObjs[o] = inc_attach(seg)]
        ch == ShmatChoose(aspace[p], shmaddr, shmflg, seg.size)
        m == map_linear(aspace[p], ch[2], seg.size)
    IN  IF ch[1] # "OK" THEN [bumped EXCEPT !.err = ch[1], !.val = 0 - 1]
        ELSE IF m # "OK"
        THEN [bumped EXCEPT !.shmObjs[o] = dec_attach(@), !.err = m, !.val = 0 - 1]
        ELSE [bumped EXCEPT !.aspace[p] = @ \cup PagesOf(ch[2], seg.size),
                            !.attached[p] = MapPut(@, ch[2], [id |-> shmid, obj |-> o]),
                            !.val = ch[2]]

sys_shmat(p, shmid, shmaddr, shmflg) ==
    IF ShmatArgCheck(shmid, shmaddr, shmflg) # "OK"
    THEN ShmFail(ShmatArgCheck(shmid, shmaddr, shmflg))
    ELSE IF shmid \notin DOMAIN segments THEN ShmFail("ENOENT")
    ELSE IF validate_segment(shmObjs[segments[shmid]], shmflg) # "OK"
    THEN ShmFail(validate_segment(shmObjs[segments[shmid]], shmflg))
    ELSE ShmatAttach(p, shmid, shmaddr, shmflg)

(***************************************************************************)
(* sys_shmdt.  The unmap of a range that sys_shmat mapped succeeds.        *)
(***************************************************************************)
\* a sys_shmdt that removes a segment whenever its attach count reaches 0
DetachRemovesUnmarked(seg) == seg.nattch = 0

\* the test sys_shmdt makes after dec_attach: remove the segment?
DetachRemoves(seg) == seg.marked /\ seg.nattch = 0

sys_shmdt(p, shmaddr) ==
    IF shmaddr \notin DOMAIN attached[p] THEN ShmFail("EINVAL")
    ELSE LET att == attached[p][shmaddr]
             o == att.obj
             st1 == [ShmState EXCEPT
                        !.attached[p] = MapDel(@, shmaddr),
                        !.aspace[p] = @ \ PagesOf(shmaddr, shmObjs[o].size),
                        !.shmObjs[o] = dec_attach(@)]
             gc == Collect(st1.shmObjs, st1.segments, st1.attached, st1.pagesFree)
         IN  IF DetachRemoves(st1.shmObjs[o]) THEN ManagerRemove(st1, att.id)
             ELSE [st1 EXCEPT !.shmObjs = gc[1], !.pagesFree = gc[2]]

(***************************************************************************)
(* sys_shmctl.  buf is "null", or "ok" for a writable shmid_ds; perm is    *)
(* the shm_perm that IPC_SET reads from it.                                *)
(***************************************************************************)
\* a set_perm that also clears the deletion mark
set_perm_unmarking(seg, perm) ==
    [seg EXCEPT !.uid = perm.uid, !.gid = perm.gid, !.mode = perm.mode,
                !.marked = FALSE]

\* ShmSegment::set_perm
set_perm(seg, perm) == [seg EXCEPT !.uid = perm.uid, !.gid = perm.gid, !.mode = perm.mode]

\* the test IPC_RMID makes after marking: remove the segment now?
RmidRemoves(seg) == seg.nattch = 0

sys_shmctl(shmid, cmd, buf, perm) ==
    IF shmid \notin DOMAIN segments THEN ShmFail("ENOENT")
    ELSE LET o == segments[shmid]
         IN  IF cmd = IPC_RMID
             THEN LET st1 == [ShmState EXCEPT !.shmObjs[o].marked = TRUE]
                  IN  IF RmidRemoves(st1.shmObjs[o]) THEN ManagerRemove(st1, shmid) ELSE st1
             ELSE IF cmd = IPC_STAT
             THEN IF buf = "null" THEN ShmFail("EFAULT") ELSE ShmState
             ELSE IF cmd = IPC_SET
             THEN IF buf = "null" THEN ShmFail("EFAULT")
                  ELSE [ShmState EXCEPT !.shmObjs[o] = set_perm(@, perm)]
             ELSE ShmFail("EINVAL")

(***************************************************************************)
(* The shared-memory specification: any sequence of the four calls by any  *)
(* process, with the arguments drawn from the sets below.                  *)
(***************************************************************************)
ShmKeys == {IPC_PRIVATE, 7}
ShmSizes == {0, PAGE_SIZE_4K, PAGE_SIZE_4K + 1, MAX_SHM_SIZE + 1}
ShmGetFlags == {384 + c + e : c \in {0, IPC_CREAT}, e \in {0, IPC_EXCL}}
ShmAddrs == {0, PAGE_SIZE_4K, PAGE_SIZE_4K + 8}
ShmAtFlags == {0, SHM_RND, SHM_RDONLY}
\* the (key, size, flags) a caller passes to shmget: every key and flag
\* combination with the sizes that pass the size check, and each key with
\* the sizes that do not
ShmGetArgs ==
    {<<k, s, f>> : k \in ShmKeys, s \in {PAGE_SIZE_4K, PAGE_SIZE_4K + 1}, f \in ShmGetFlags}
    \cup {<<k, s, 384 + IPC_CREAT>> : k \in ShmKeys, s \in {0, MAX_SHM_SIZE + 1}}
\* the (hint, flags) a caller passes to shmat: no hint, an aligned one, a
\* misaligned one, with and without SHM_RND, and a read-only attach
ShmAtArgs == {<<0, 0>>, <<PAGE_SIZE_4K, 0>>, <<PAGE_SIZE_4K + 8, 0>>,
              <<0, SHM_RND>>, <<PAGE_SIZE_4K + 8, SHM_RND>>, <<0, SHM_RDONLY>>}
\* (cmd, buf) pairs: IPC_RMID ignores buf; 3 is an unknown command
ShmCtlArgs == {<<IPC_RMID, "null">>, <<IPC_STAT, "null">>, <<IPC_STAT, "ok">>,
               <<IPC_SET, "null">>, <<IPC_SET, "ok">>, <<3, "null">>}
ShmPerms == {[uid |-> 1, gid |-> 0, mode |-> 32]}
\* ids a caller may pass: every id handed out so far, and -1
ShmIds == DOMAIN segments \cup removedIds \cup {0 - 1}
\* addresses a caller may detach: the hints above and every attached address
ShmDtAddrs(p) == ShmAddrs \cup DOMAIN attached[p]

ShmInit ==
    /\ segments = EmptyMap
    /\ key_to_id = EmptyMap
    /\ next_id = 1
    /\ shmObjs = EmptyMap
    /\ nextObj = 1
    /\ pagesFree = TotalPages
    /\ attached = [p \in Procs |-> EmptyMap]
    /\ aspace = [p \in Procs |-> {}]
    /\ removedIds = {}

\* the bounds: at most MaxObjs creations, attach counts up to MaxNattch
ShmWithin(r) ==
    /\ r.nextObj <= MaxObjs + 1
    /\ {o \in DOMAIN r.shmObjs : r.shmObjs[o].nattch > MaxNattch} = {}

ShmGet == \E a \in ShmGetArgs :
              \E allocOk \in AllocOutcomes(align_up_4k(a[2]) \div PAGE_SIZE_4K) :
                  LET r == sys_shmget(a[1], a[2], a[3], allocOk)
                  IN  ShmWithin(r) /\ ShmApply("shmget", r)
ShmAt == \E p \in Procs, id \in ShmIds, a \in ShmAtArgs :
             LET r == sys_shmat(p, id, a[1], a[2])
             IN  ShmWithin(r) /\ ShmApply("shmat", r)
ShmDt == \E p \in Procs : \E addr \in ShmDtAddrs(p) :
             ShmApply("shmdt", sys_shmdt(p, addr))
ShmCtl == \E id \in ShmIds, cb \in ShmCtlArgs, perm \in ShmPerms :
              ShmApply("shmctl", sys_shmctl(id, cb[1], cb[2], perm))

ShmNext == ShmGet \/ ShmAt \/ ShmDt \/ ShmCtl

\* a directory fd freshly opened on the directory with the entries es
DirOpened(es) ==
    /\ dirEntries = es
    /\ dirPos = 0
    /\ last_dirent = [some |-> FALSE]
    /\ userBuf = <<>>
    /\ emitted = <<>>

(***************************************************************************)
(* The fd table (api/src/file, a collaborator): fds 0..NFds-1, each empty, *)
(* a pollable file, or an epoll instance.                                  *)
(***************************************************************************)
NFds == 2             \* slots of the fd table
Fds == 0..(NFds - 1)
\* a poll() result
PollState(r, w) == [err |-> "OK", readable |-> r, writable |-> w]
PollFails == [err |-> "EIO", readable |-> FALSE, writable |-> FALSE]

\* three fd_set buffers with no bit set
NoSets == [r |-> {}, w |-> {}, e |-> {}]

\* no multiplexing call made yet; -1 stands for no deadline and no time
NoWait == [kind |-> "none", pc |-> "idle", T |-> 0, entry |-> 0, deadline |-> 0 - 1,
           wake |-> 0, nfds |-> 0, maxevents |-> 0, epfd |-> 0, bits |-> NoSets]
WaitIdle == now = 0 /\ wcall = NoWait

\* a closed fd of the copy fd table, and that table with nothing open
NoFd == [kind |-> "none", obj |-> 0, readable |-> FALSE]
IoIdle ==
    /\ ioFds = <<>> /\ inodes = <<>> /\ openFiles = <<>> /\ pipeBuf = <<>>
    /\ uoff = <<>>

\* the process table of a system with the init process alone: pid 1 leads
\* group 1 of session 1
NPids == 3            \* pids of the process table
Pids == 1..NPids
NoProcess == [alive |-> FALSE, parent |-> 0, pgid |-> 0, sid |-> 0]
Process(parent, pgid, sid) == [alive |-> TRUE, parent |-> parent, pgid |-> pgid, sid |-> sid]
PgIdle ==
    /\ processes = [p \in Pids |-> IF p = 1 THEN Process(0, 1, 1) ELSE NoProcess]
    /\ groups = [g \in Pids |-> IF g = 1 THEN 1 ELSE 0]

\* no system call is being followed step by step
NoLockCall == [call |-> "none", pc |-> "idle"]
LockIdle == lcall = NoLockCall /\ held = {}

\* an fd table with nothing open
MpxInit ==
    /\ fdKind = [fd \in Fds |-> "none"]
    /\ fdPoll = [fd \in Fds |-> PollState(FALSE, FALSE)]
    /\ interest = [fd \in Fds |-> EmptyMap]
    /\ lastSet = [fd \in Fds |-> EmptyMap]
    /\ delSet = [fd \in Fds |-> {}]
    /\ evbuf = <<>>
    /\ pollfds = <<>>
    /\ selsets = NoSets

(***************************************************************************)
(* The calling task as the kernel's init path leaves it: one thread,       *)
(* running the image of /init over a file system.                          *)
(***************************************************************************)
\* the paths of the file system, as sequences of components
ExecPaths == {<<"bin", "s">>, <<"bin", "sh">>, <<"musl", "lib", "libc.so">>}
NoFile == [kind |-> "absent"]
NoFiles == [p \in ExecPaths |-> NoFile]
InitPath == <<"init">>
Trampoline == [area |-> "trampoline"]
LoadArea(path, i) == [area |-> "load", file |-> path, seg |-> i]
StackArea == [area |-> "stack"]
HeapArea == [area |-> "heap"]
TrapFrame(ip, sp) == [ip |-> ip, sp |-> sp]

TaskBooted(fs) ==
    /\ files = fs
    /\ user_areas = {Trampoline, LoadArea(InitPath, 1), StackArea, HeapArea}
    /\ taskName = "init"
    /\ exe_path = InitPath
    /\ tf = TrapFrame(0, [below_top |-> 1])
    /\ nthreads = 1

\* the state after construction, with an empty directory open
Init == ShmInit /\ DirOpened(<<>>) /\ MpxInit /\ TaskBooted(NoFiles) /\ WaitIdle /\ IoIdle /\ PgIdle /\ LockIdle
        /\ ret = NoCall

SpecShm == Init /\ [][ShmNext]_vars

(***************************************************************************)
(* getdents64 (api/src/imp/fs/ctl.rs).  A name is a sequence of bytes; an  *)
(* entry is a name and the file type the VFS reports for it.               *)
(***************************************************************************)
NAME_OFFSET == 19     \* offset_of!(linux_dirent64, d_name)
DIRENT_ALIGN == 8     \* align_of::<linux_dirent64>()

next_multiple_of(n, a) == ((n + a - 1) \div a) * a

\* From<axfs::api::FileType> for FileType
FileTypeFrom(ft) ==
    CASE ft = "dir" -> "Dir"
      [] ft = "file" -> "Reg"
      [] ft = "symlink" -> "Lnk"
      [] ft = "block" -> "Blk"
      [] ft = "char" -> "Chr"
      [] ft = "fifo" -> "Fifo"
      [] ft = "socket" -> "Socket"
      [] OTHER -> "Unknown"

None == [some |-> FALSE]
Some(x) == [some |-> TRUE, ent |-> x]

\* DirBuffer::new
DirBufferNew(len) == [len |-> len, offset |-> 0, recs |-> <<>>]

\* DirBuffer::remaining_space
remaining_space(b) == IF b.len >= b.offset THEN b.len - b.offset ELSE 0

\* the length DirBuffer::write_entry gives the record of a name
RecLen(name) == next_multiple_of(NAME_OFFSET + Len(name) + 1, DIRENT_ALIGN)

\* DirBuffer::write_entry : <<written?, buffer>>
write_entry(b, d_type, name) ==
    IF remaining_space(b) < RecLen(name) THEN <<FALSE, b>>
    ELSE <<TRUE, [b EXCEPT !.offset = @ + RecLen(name),
                           !.recs = Append(@, [d_ino |-> 1, d_off |-> 0,
                                               d_reclen |-> RecLen(name),
                                               d_type |-> d_type,
                                               d_name |-> Append(name, 0)])]>>

\* Directory.inner.read_dir(&mut [one entry]) : the iterator hands out the
\* entries in order, then 0 entries
read_dir(es, pos) ==
    IF pos < Len(es) THEN [err |-> "OK", cnt |-> 1, ent |-> es[pos + 1], pos |-> pos + 1]
    ELSE [err |-> "OK", cnt |-> 0, ent |-> <<>>, pos |-> pos]

\* an overflowing entry dropped instead of carried
OverflowDropped(ent) == None

\* what the loop stores in last_dirent when an entry does not fit
OverflowCarried(ent) == Some(ent)

RECURSIVE GetdentsLoop(_, _, _)
\* the read loop of sys_getdents64 :
\* [err, buffer, pos, carry] when the loop ends or read_dir fails
GetdentsLoop(es, pos, b) ==
    LET rd == read_dir(es, pos)
    IN  IF rd.err # "OK" THEN [err |-> rd.err, b |-> b, pos |-> rd.pos, carry |-> None]
        ELSE IF rd.cnt = 0 THEN [err |-> "OK", b |-> b, pos |-> rd.pos, carry |-> None]
        ELSE LET w == write_entry(b, FileTypeFrom(rd.ent.ty), rd.ent.name)
             IN  IF ~w[1]
                 THEN [err |-> "OK", b |-> b, pos |-> rd.pos, carry |-> OverflowCarried(rd.ent)]
                 ELSE GetdentsLoop(es, rd.pos, w[2])

\* a final test that lets an empty result through
NothingWrittenIgnored(carry, offset) == FALSE

\* the final test of sys_getdents64 : nothing written and the carry occupied
NothingWritten(carry, offset) == carry.some /\ offset = 0

\* sys_getdents64 on the directory in the state d = [pos, carry, buf] :
\* the state after the call with the error kind and the value returned.
\* fdOk: fd names an open directory; bufOk: buf..buf+len is writable.
sys_getdents64(es, d, fdOk, bufOk, len) ==
    LET fail(e) == [pos |-> d.pos, carry |-> d.carry, buf |-> d.buf, err |-> e, val |-> 0 - 1]
        b0 == DirBufferNew(len)
        w0 == IF d.carry.some
              THEN write_entry(b0, FileTypeFrom(d.carry.ent.ty), d.carry.ent.name)
              ELSE <<TRUE, b0>>
        lp == GetdentsLoop(es, d.pos, w0[2])
        \* the caller's buffer keeps what was there beyond the bytes written
        out(b) == IF b.offset = 0 THEN d.buf ELSE b.recs
    IN  IF ~bufOk THEN fail("EFAULT")
        ELSE IF ~fdOk THEN fail("EBADF")
        ELSE IF ~w0[1] THEN fail("EINVAL")
        ELSE IF lp.err # "OK"
        THEN [pos |-> lp.pos, carry |-> None, buf |-> out(lp.b), err |-> lp.err, val |-> 0 - 1]
        ELSE IF NothingWritten(lp.carry, lp.b.offset)
        THEN [pos |-> lp.pos, carry |-> lp.carry, buf |-> out(lp.b), err |-> "EINVAL", val |-> 0 - 1]
        ELSE [pos |-> lp.pos, carry |-> lp.carry, buf |-> out(lp.b), err |-> "OK", val |-> lp.b.offset]

(***************************************************************************)
(* The getdents64 specification: one directory, chosen at the start, and   *)
(* any sequence of calls on its fd with the buffer sizes below.            *)
(***************************************************************************)
MaxDirLen == 3        \* entries of the directory
\* record lengths 24, 24, 32 and 40
DirNames == {<<97>>, <<98, 98>>, <<99, 99, 99, 99, 99>>,
             <<100, 100, 100, 100, 100, 100, 100, 100, 100, 100, 100, 100, 100>>}
DirEntriesOf(names) == {[name |-> n, ty |-> IF Len(n) = 2 THEN "dir" ELSE "file"] : n \in names}
\* the directories: sequences of entries with distinct names
Directories ==
    UNION {{es \in [1..n -> DirEntriesOf(DirNames)] : \A i, j \in 1..n : es[i] = es[j] => i = j}
           : n \in 0..MaxDirLen}
BufSizes == {8, 24, 32, 48, 64, 96}

DirState == [pos |-> dirPos, carry |-> last_dirent, buf |-> userBuf]

DirInit == \E es \in Directories : DirOpened(es)

Getdents == \E fdOk \in BOOLEAN, bufOk \in BOOLEAN, len \in BufSizes :
                LET r == sys_getdents64(dirEntries, DirState, fdOk, bufOk, len)
                IN  /\ dirPos' = r.pos
                    /\ last_dirent' = r.carry
                    /\ userBuf' = r.buf
                    /\ emitted' = IF r.err = "OK" /\ r.val > 0 THEN emitted \o r.buf
                                  ELSE emitted
                    /\ ret' = Call("getdents64", r.err, r.val)
                    /\ UNCHANGED <<dirEntries, shmVars, mpxVars, waitVars, ioVars, pgVars, lockVars, execVars>>

DirNext == Getdents

InitDir == ShmInit /\ DirInit /\ MpxInit /\ TaskBooted(NoFiles) /\ WaitIdle /\ IoIdle /\ PgIdle /\ LockIdle
           /\ ret = NoCall

SpecDir == InitDir /\ [][DirNext]_vars

(***************************************************************************)
(* epoll (api/src/imp/fs/io_mpx/epoll.rs)                                  *)
(***************************************************************************)
EPOLL_CTL_ADD == 1
EPOLL_CTL_DEL == 2
EPOLL_CTL_MOD == 3
EPOLLIN == 1
EPOLLOUT == 4
EPOLLERR == 8

\* get_file_like(fd) : "OK" when fd names an open file
get_file_like(kinds, fd) ==
    IF fd \in DOMAIN kinds /\ kinds[fd] # "none" THEN "OK" ELSE "EBADF"

\* add_file_like : the lowest free fd, or -1 when the table is full
add_file_like(kinds) ==
    IF \E fd \in DOMAIN kinds : kinds[fd] = "none"
    THEN CHOOSE fd \in DOMAIN kinds :
             kinds[fd] = "none" /\ \A g \in DOMAIN kinds : kinds[g] = "none" => fd <= g
    ELSE 0 - 1

\* EpollInstance::from_fd : "OK" when epfd names an epoll instance
from_fd(kinds, epfd) ==
    IF get_file_like(kinds, epfd) # "OK" THEN get_file_like(kinds, epfd)
    ELSE IF kinds[epfd] # "epoll" THEN "EINVAL"
    ELSE "OK"

\* an ADD that overwrites an entry already present
control_overwriting(kinds, events, op, fd, event) ==
    IF get_file_like(kinds, fd) # "OK" THEN [err |-> get_file_like(kinds, fd), events |-> events]
    ELSE IF op = EPOLL_CTL_ADD THEN [err |-> "OK", events |-> MapPut(events, fd, event)]
    ELSE IF op = EPOLL_CTL_MOD
    THEN IF fd \notin DOMAIN events THEN [err |-> "ENOENT", events |-> events]
         ELSE [err |-> "OK", events |-> MapPut(events, fd, event)]
    ELSE IF op = EPOLL_CTL_DEL
    THEN IF fd \notin DOMAIN events THEN [err |-> "ENOENT", events |-> events]
         ELSE [err |-> "OK", events |-> MapDel(events, fd)]
    ELSE [err |-> "EINVAL", events |-> events]

\* EpollInstance::control : the error kind and the interest map afterwards
control(kinds, events, op, fd, event) ==
    IF get_file_like(kinds, fd) # "OK" THEN [err |-> get_file_like(kinds, fd), events |-> events]
    ELSE IF op = EPOLL_CTL_ADD
    THEN IF fd \in DOMAIN events THEN [err |-> "EEXIST", events |-> events]
         ELSE [err |-> "OK", events |-> MapPut(events, fd, event)]
    ELSE IF op = EPOLL_CTL_MOD
    THEN IF fd \notin DOMAIN events THEN [err |-> "ENOENT", events |-> events]
         ELSE [err |-> "OK", events |-> MapPut(events, fd, event)]
    ELSE IF op = EPOLL_CTL_DEL
    THEN IF fd \notin DOMAIN events THEN [err |-> "ENOENT", events |-> events]
         ELSE [err |-> "OK", events |-> MapDel(events, fd)]
    ELSE [err |-> "EINVAL", events |-> events]

\* a poll of the instance that reports readable when the map is empty
EpollInstancePollInverted(events) == PollState(DOMAIN events = {}, FALSE)

\* FileLike::poll for EpollInstance
EpollInstancePoll(events) == PollState(~(DOMAIN events = {}), FALSE)

\* file.poll() of the open file at fd
FilePoll(kinds, polls, maps, fd) ==
    IF kinds[fd] = "epoll" THEN EpollInstancePoll(maps[fd]) ELSE polls[fd]

RECURSIVE PollAllFrom(_, _, _, _, _, _)
\* the loop of EpollInstance::poll_all over the watched fds from infd up :
\* the events written, at most room of them
PollAllFrom(kinds, polls, maps, events, infd, room) ==
    IF room <= 0 \/ \A k \in DOMAIN events : k < infd THEN <<>>
    ELSE IF infd \notin DOMAIN events
    THEN PollAllFrom(kinds, polls, maps, events, infd + 1, room)
    ELSE LET ev == events[infd]
             st == IF get_file_like(kinds, infd) # "OK" THEN PollFails
                   ELSE FilePoll(kinds, polls, maps, infd)
             out == IF st.err # "OK"
                    THEN IF BitAnd(ev.events, EPOLLERR) # 0
                         THEN <<[events |-> EPOLLERR, data |-> ev.data]>> ELSE <<>>
                    ELSE IF st.readable /\ BitAnd(ev.events, EPOLLIN) # 0
                         THEN <<[events |-> EPOLLIN, data |-> ev.data]>>
                    ELSE IF st.writable /\ BitAnd(ev.events, EPOLLOUT) # 0
                         THEN <<[events |-> EPOLLOUT, data |-> ev.data]>>
                    ELSE <<>>
         IN  out \o PollAllFrom(kinds, polls, maps, events, infd + 1, room - Len(out))

\* a poll_all that writes one event past the end of the buffer
poll_all_past_end(kinds, polls, maps, events, maxevents) ==
    PollAllFrom(kinds, polls, maps, events, 0, maxevents + 1)

\* EpollInstance::poll_all into a buffer of maxevents events
poll_all(kinds, polls, maps, events, maxevents) ==
    PollAllFrom(kinds, polls, maps, events, 0, maxevents)

\* The multiplexer state as one record, with the result of a call.
MpxState ==
    [fdKind |-> fdKind, fdPoll |-> fdPoll, interest |-> interest, evbuf |-> evbuf,
     pollfds |-> pollfds, err |-> "OK", val |-> 0]
MpxFail(e) == [MpxState EXCEPT !.err = e, !.val = 0 - 1]

\* sys_epoll_create
sys_epoll_create(size) ==
    IF size <= 0 THEN MpxFail("EINVAL")
    ELSE LET fd == add_file_like(fdKind)
         IN  IF fd < 0 THEN MpxFail("EMFILE")
             ELSE [MpxState EXCEPT !.fdKind[fd] = "epoll", !.interest[fd] = EmptyMap,
                                   !.val = fd]

\* an epoll_ctl that consults the interest map before it looks at the fd
sys_epoll_ctl_map_first(epfd, op, fd, event) ==
    LET evErr == IF op = EPOLL_CTL_DEL
                 THEN IF event.ptr = "bad" THEN "EFAULT" ELSE "OK"
                 ELSE IF event.ptr \in {"null", "bad"} THEN "EFAULT" ELSE "OK"
        ev == IF event.ptr = "null" THEN [events |-> 0, data |-> 0] ELSE event.ev
    IN  IF evErr # "OK" THEN MpxFail(evErr)
        ELSE IF from_fd(fdKind, epfd) # "OK" THEN MpxFail(from_fd(fdKind, epfd))
        ELSE LET c == control([k \in DOMAIN fdKind |-> "file"], interest[epfd], op, fd, ev)
             IN  IF c.err # "OK" THEN MpxFail(c.err)
                 ELSE IF get_file_like(fdKind, fd) # "OK"
                 THEN MpxFail(get_file_like(fdKind, fd))
                 ELSE [MpxState EXCEPT !.interest[epfd] = c.events]

\* sys_epoll_ctl; event.ptr is "null", "bad" (an unmapped address) or "ok",
\* and event.ev the EpollEvent it points to
sys_epoll_ctl(epfd, op, fd, event) ==
    LET evErr == IF op = EPOLL_CTL_DEL
                 THEN IF event.ptr = "bad" THEN "EFAULT" ELSE "OK"
                 ELSE IF event.ptr \in {"null", "bad"} THEN "EFAULT" ELSE "OK"
        ev == IF event.ptr = "null" THEN [events |-> 0, data |-> 0] ELSE event.ev
    IN  IF evErr # "OK" THEN MpxFail(evErr)
        ELSE IF from_fd(fdKind, epfd) # "OK" THEN MpxFail(from_fd(fdKind, epfd))
        ELSE LET c == control(fdKind, interest[epfd], op, fd, ev)
             IN  IF c.err # "OK" THEN MpxFail(c.err)
                 ELSE [MpxState EXCEPT !.interest[epfd] = c.events]

\* EpollInstance::poll_all takes the lock of the instance and, when it comes
\* to the instance's own fd with room left, calls poll() of the instance,
\* which takes the same lock: the spin lock is never released
PollAllSpins(kinds, polls, maps, epfd, maxevents) ==
    /\ epfd \in DOMAIN maps[epfd]
    /\ get_file_like(kinds, epfd) = "OK"
    /\ LET before == [k \in {d \in DOMAIN maps[epfd] : d < epfd} |-> maps[epfd][k]]
       IN  Len(poll_all(kinds, polls, maps, before, maxevents)) < maxevents

\* sys_epoll_wait, when it returns: with ready events, or at the deadline.
\* The call does not return when poll_all spins on the instance's own lock,
\* or when no event is ready and the timeout is infinite.
EpollWaitBlocks(epfd, maxevents, timeout) ==
    /\ maxevents > 0
    /\ from_fd(fdKind, epfd) = "OK"
    /\ \/ PollAllSpins(fdKind, fdPoll, interest, epfd, maxevents)
       \/ /\ poll_all(fdKind, fdPoll, interest, interest[epfd], maxevents) = <<>>
          /\ timeout < 0

sys_epoll_wait(epfd, bufOk, maxevents, timeout) ==
    IF maxevents <= 0 THEN MpxFail("EINVAL")
    ELSE IF from_fd(fdKind, epfd) # "OK" THEN MpxFail(from_fd(fdKind, epfd))
    ELSE LET evs == poll_all(fdKind, fdPoll, interest, interest[epfd], maxevents)
         IN  IF Len(evs) > 0
             THEN IF ~bufOk THEN MpxFail("EFAULT")
                  ELSE [MpxState EXCEPT !.evbuf = evs, !.val = Len(evs)]
             ELSE MpxState

(***************************************************************************)
(* The epoll specification: files are opened and closed, epoll instances   *)
(* created, and epoll_ctl / epoll_wait called with the arguments below.    *)
(***************************************************************************)
MaxEpolls == 1        \* epoll instances open at a time
FilePollStates == {PollState(TRUE, FALSE), PollState(FALSE, TRUE), PollFails}
EpollEvents == {[events |-> EPOLLIN, data |-> 1], [events |-> EPOLLOUT + EPOLLERR, data |-> 2]}
EpollEventArgs ==
    {[ptr |-> "ok", ev |-> e] : e \in EpollEvents}
    \cup {[ptr |-> q, ev |-> [events |-> 0, data |-> 0]] : q \in {"null", "bad"}}
EpollOps == {EPOLL_CTL_ADD, EPOLL_CTL_DEL, EPOLL_CTL_MOD, 7}
FdArgs == Fds \cup {0 - 1}

MpxApply(op, r) ==
    /\ fdKind' = r.fdKind
    /\ fdPoll' = r.fdPoll
    /\ interest' = r.interest
    /\ evbuf' = r.evbuf
    /\ pollfds' = r.pollfds
    /\ ret' = Call(op, r.err, r.val)
    /\ UNCHANGED <<selsets, shmVars, dirVars, waitVars, ioVars, pgVars, lockVars, execVars>>

\* open(2) of a pollable file: the fd table gets a file whose poll() returns st
sys_open(st) ==
    LET fd == add_file_like(fdKind)
    IN  IF fd < 0 THEN MpxFail("EMFILE")
        ELSE [MpxState EXCEPT !.fdKind[fd] = "file", !.fdPoll[fd] = st, !.val = fd]

\* close(2): the fd table drops the file; an epoll instance dies with its fd
sys_close(fd) ==
    IF get_file_like(fdKind, fd) # "OK" THEN MpxFail("EBADF")
    ELSE [MpxState EXCEPT !.fdKind[fd] = "none",
                          !.fdPoll[fd] = PollState(FALSE, FALSE),
                          !.interest[fd] = EmptyMap]

Open == \E st \in FilePollStates :
            MpxApply("open", sys_open(st)) /\ UNCHANGED <<lastSet, delSet>>
Close == \E fd \in Fds :
             /\ MpxApply("close", sys_close(fd))
             /\ lastSet' = IF sys_close(fd).err = "OK" THEN [lastSet EXCEPT ![fd] = EmptyMap]
                           ELSE lastSet
             /\ delSet' = IF sys_close(fd).err = "OK" THEN [delSet EXCEPT ![fd] = {}]
                          ELSE delSet
EpollCreate == \E size \in {0, 1} :
                   /\ Cardinality({fd \in Fds : fdKind[fd] = "epoll"}) < MaxEpolls
                   /\ MpxApply("epoll_create", sys_epoll_create(size))
                   /\ UNCHANGED <<lastSet, delSet>>
EpollCtl == \E epfd \in FdArgs, op \in EpollOps, fd \in FdArgs, event \in EpollEventArgs :
                LET r == sys_epoll_ctl(epfd, op, fd, event)
                IN  /\ MpxApply("epoll_ctl", r)
                    /\ lastSet' = IF r.err # "OK" THEN lastSet
                                  ELSE IF op = EPOLL_CTL_DEL
                                  THEN [lastSet EXCEPT ![epfd] = MapDel(@, fd)]
                                  ELSE [lastSet EXCEPT ![epfd] = MapPut(@, fd, event.ev)]
                    /\ delSet' = IF r.err # "OK" THEN delSet
                                 ELSE IF op = EPOLL_CTL_DEL
                                 THEN [delSet EXCEPT ![epfd] = @ \cup {fd}]
                                 ELSE [delSet EXCEPT ![epfd] = @ \ {fd}]
EpollWait == \E epfd \in FdArgs, bufOk \in BOOLEAN, maxevents \in 0..2, timeout \in {0 - 1, 0} :
                 /\ ~EpollWaitBlocks(epfd, maxevents, timeout)
                 /\ MpxApply("epoll_wait", sys_epoll_wait(epfd, bufOk, maxevents, timeout))
                 /\ UNCHANGED <<lastSet, delSet>>

EpollNext == Open \/ Close \/ EpollCreate \/ EpollCtl \/ EpollWait

SpecEpoll == Init /\ [][EpollNext]_vars

(***************************************************************************)
(* poll and ppoll (api/src/imp/fs/io_mpx/poll.rs)                          *)
(***************************************************************************)
POLLIN == 1
POLLOUT == 4
POLLERR == 8
POLLNVAL == 32

\* a | b on naturals
BitOr(a, b) == a + b - BitAnd(a, b)

\* a loop body that keeps the revents the caller passed in
PollEntryUncleared(kinds, polls, maps, pfd) ==
    IF pfd.fd < 0 THEN pfd
    ELSE IF get_file_like(kinds, pfd.fd) # "OK" THEN [pfd EXCEPT !.revents = POLLNVAL]
    ELSE LET state == FilePoll(kinds, polls, maps, pfd.fd)
         IN  IF state.err # "OK" THEN [pfd EXCEPT !.revents = POLLERR]
             ELSE [pfd EXCEPT !.revents =
                      BitOr(BitOr(@, IF BitAnd(pfd.events, POLLIN) # 0 /\ state.readable
                                     THEN POLLIN ELSE 0),
                            IF BitAnd(pfd.events, POLLOUT) # 0 /\ state.writable
                            THEN POLLOUT ELSE 0)]

\* the body of the for loop of sys_poll and sys_ppoll : the entry afterwards
PollEntry(kinds, polls, maps, pfd) ==
    LET cleared == [pfd EXCEPT !.revents = 0]
    IN  IF pfd.fd < 0 THEN cleared
        ELSE IF get_file_like(kinds, pfd.fd) # "OK" THEN [cleared EXCEPT !.revents = POLLNVAL]
        ELSE LET state == FilePoll(kinds, polls, maps, pfd.fd)
             IN  IF state.err # "OK" THEN [cleared EXCEPT !.revents = POLLERR]
                 ELSE [cleared EXCEPT !.revents =
                          BitOr(BitOr(@, IF BitAnd(pfd.events, POLLIN) # 0 /\ state.readable
                                         THEN POLLIN ELSE 0),
                                IF BitAnd(pfd.events, POLLOUT) # 0 /\ state.writable
                                THEN POLLOUT ELSE 0)]

RECURSIVE PollLoop(_, _, _, _, _, _, _)
\* the for loop over the first nfds entries, from entry i on :
\* <<the array afterwards, ready_count>>
PollLoop(kinds, polls, maps, pfds, nfds, i, ready_count) ==
    IF i > nfds THEN <<pfds, ready_count>>
    ELSE LET e == PollEntry(kinds, polls, maps, pfds[i])
             counted == pfds[i].fd >= 0 /\ e.revents # 0
         IN  PollLoop(kinds, polls, maps, [pfds EXCEPT ![i] = e], nfds, i + 1,
                      IF counted THEN ready_count + 1 ELSE ready_count)

\* one sampling pass over the caller's array of nfds entries
PollPass(nfds) == PollLoop(fdKind, fdPoll, interest, pollfds, nfds, 1, 0)

\* the wait loop of sys_poll / sys_ppoll when it returns: with ready entries,
\* or with 0 at the deadline
PollWait(fdsOk, nfds) ==
    IF ~fdsOk THEN MpxFail("EFAULT")
    ELSE [MpxState EXCEPT !.pollfds = PollPass(nfds)[1], !.val = PollPass(nfds)[2]]

\* sys_poll on the caller's array of nfds entries
sys_poll(fdsOk, nfds, timeout_ms) ==
    IF nfds = 0 THEN MpxState
    ELSE PollWait(fdsOk, nfds)

\* sys_ppoll; timeout is "null", "bad" (an unmapped address) or "ts"
sys_ppoll(fdsOk, nfds, timeout) ==
    IF nfds = 0
    THEN IF timeout = "bad" THEN MpxFail("EFAULT") ELSE MpxState
    ELSE IF timeout = "bad" THEN MpxFail("EFAULT")
    ELSE PollWait(fdsOk, nfds)

\* no entry is ready and there is no deadline: the call does not return
PollBlocks(fdsOk, nfds, infinite) ==
    nfds > 0 /\ fdsOk /\ infinite /\ PollPass(nfds)[2] = 0

(***************************************************************************)
(* The poll specification: an fd table in any state it can get into, a     *)
(* pollfd array of the caller, and any sequence of poll and ppoll calls.   *)
(***************************************************************************)
MaxPollFds == 2       \* entries of the caller's pollfd array
\* the entries the caller passes: any fd (negative, in the table, beyond it),
\* any request, and stale revents left in the array
PollEntries ==
    {[fd |-> fd, events |-> ev, revents |-> POLLNVAL + POLLIN] :
         fd \in Fds \cup {0 - 1, NFds},
         ev \in {0, POLLIN, POLLOUT, POLLIN + POLLOUT}}
PollArrays == UNION {[1..n -> PollEntries] : n \in 0..MaxPollFds}

\* the fd tables: every fd closed, a file, an empty epoll instance, or an
\* epoll instance that watches itself
PollInit ==
    /\ fdKind \in [Fds -> {"none", "file", "epoll"}]
    /\ Cardinality({fd \in Fds : fdKind[fd] = "epoll"}) <= MaxEpolls
    /\ fdPoll \in [Fds -> FilePollStates \cup {PollState(FALSE, FALSE)}]
    /\ \A fd \in Fds : fdKind[fd] = "file" <=> fdPoll[fd] \in FilePollStates
    /\ \E watching \in SUBSET {fd \in Fds : fdKind[fd] = "epoll"} :
           interest = [fd \in Fds |-> IF fd \in watching
                                      THEN MapPut(EmptyMap, fd, [events |-> EPOLLIN, data |-> 1])
                                      ELSE EmptyMap]
    /\ lastSet = interest
    /\ delSet = [fd \in Fds |-> {}]
    /\ evbuf = <<>>
    /\ pollfds \in PollArrays
    /\ selsets = NoSets

Poll == \E fdsOk \in BOOLEAN, timeout_ms \in {0 - 1, 0, 5} :
            /\ ~PollBlocks(fdsOk, Len(pollfds), timeout_ms < 0)
            /\ MpxApply("poll", sys_poll(fdsOk, Len(pollfds), timeout_ms))
            /\ UNCHANGED <<lastSet, delSet>>
Ppoll == \E fdsOk \in BOOLEAN, timeout \in {"null", "bad", "ts"} :
             /\ ~PollBlocks(fdsOk, Len(pollfds), timeout = "null")
             /\ MpxApply("ppoll", sys_ppoll(fdsOk, Len(pollfds), timeout))
             /\ UNCHANGED <<lastSet, delSet>>

PollNext == Poll \/ Ppoll

InitPoll == ShmInit /\ DirOpened(<<>>) /\ PollInit /\ TaskBooted(NoFiles) /\ WaitIdle /\ IoIdle /\ PgIdle /\ LockIdle
            /\ ret = NoCall

SpecPoll == InitPoll /\ [][PollNext]_vars

(***************************************************************************)
(* select and pselect6 (api/src/imp/fs/io_mpx/select.rs).  An fd_set is    *)
(* the set of the fds whose bit is set; word k of it holds the fds         *)
(* k * BITS_PER_USIZE .. k * BITS_PER_USIZE + BITS_PER_USIZE - 1.          *)
(***************************************************************************)
FD_SETSIZE == 1024
BITS_PER_USIZE == 64

div_ceil(a, b) == (a + b - 1) \div b
Min(a, b) == IF a < b THEN a ELSE b

\* the first n words of an fd_set
FirstWords(set, n) == {fd \in set : fd < n * BITS_PER_USIZE}
\* the word of an fd_set that starts at fd i is 0
WordIsZero(set, i) == \A fd \in set : fd < i \/ fd >= i + BITS_PER_USIZE
\* the fds of the word that starts at fd i whose bit, from bit j on, is set
\* and which are below nfds
WordBitsFrom(set, nfds, i, j) ==
    {fd \in set : fd >= i + j /\ fd < i + BITS_PER_USIZE /\ fd < nfds}
SetMin(S) == CHOOSE x \in S : \A y \in S : x <= y

\* FdSets::from : the kernel copy of the three sets; a pointer is "null",
\* "bad" (an unmapped address) or "ok"
FdSetsFrom(nfds, sets, rp, wp, ep) ==
    LET n == Min(nfds, FD_SETSIZE)
        nfds_usizes == div_ceil(n, BITS_PER_USIZE)
        copy_from_fd_set(set, p) == IF p = "null" THEN {} ELSE FirstWords(set, nfds_usizes)
    IN  IF "bad" \in {rp, wp, ep} THEN [err |-> "EFAULT", nfds |-> n, bits |-> NoSets]
        ELSE [err |-> "OK", nfds |-> n,
              bits |-> [r |-> copy_from_fd_set(sets.r, rp),
                        w |-> copy_from_fd_set(sets.w, wp),
                        e |-> copy_from_fd_set(sets.e, ep)]]

\* a bit test that looks at the read set where the write set is meant
SelectBitMisread(kinds, polls, maps, bits, fd, res) ==
    LET st == IF get_file_like(kinds, fd) # "OK" THEN PollFails
              ELSE FilePoll(kinds, polls, maps, fd)
        rd == st.err = "OK" /\ st.readable /\ fd \in bits.r
        wr == st.err = "OK" /\ st.writable /\ fd \in bits.r
        ex == st.err # "OK" /\ fd \in bits.e
    IN  [r |-> IF rd THEN res.r \cup {fd} ELSE res.r,
         w |-> IF wr THEN res.w \cup {fd} ELSE res.w,
         e |-> IF ex THEN res.e \cup {fd} ELSE res.e,
         num |-> res.num + (IF rd THEN 1 ELSE 0) + (IF wr THEN 1 ELSE 0)
                         + (IF ex THEN 1 ELSE 0)]

\* the match of poll_all on one fd that is in some set : the results afterwards
SelectBit(kinds, polls, maps, bits, fd, res) ==
    LET st == IF get_file_like(kinds, fd) # "OK" THEN PollFails
              ELSE FilePoll(kinds, polls, maps, fd)
        rd == st.err = "OK" /\ st.readable /\ fd \in bits.r
        wr == st.err = "OK" /\ st.writable /\ fd \in bits.w
        ex == st.err # "OK" /\ fd \in bits.e
    IN  [r |-> IF rd THEN res.r \cup {fd} ELSE res.r,
         w |-> IF wr THEN res.w \cup {fd} ELSE res.w,
         e |-> IF ex THEN res.e \cup {fd} ELSE res.e,
         num |-> res.num + (IF rd THEN 1 ELSE 0) + (IF wr THEN 1 ELSE 0)
                         + (IF ex THEN 1 ELSE 0)]

RECURSIVE SelectWord(_, _, _, _, _, _, _, _)
\* the inner while loop of poll_all over the bits of the word at i, from bit
\* j on; the iterations on a bit that is not set do nothing and are passed over
SelectWord(kinds, polls, maps, bits, nfds, i, j, res) ==
    LET todo == WordBitsFrom(bits.r \cup bits.w \cup bits.e, nfds, i, j)
    IN  IF todo = {} THEN res
        ELSE LET fd == SetMin(todo)
             IN  SelectWord(kinds, polls, maps, bits, nfds, i, fd - i + 1,
                            SelectBit(kinds, polls, maps, bits, fd, res))

RECURSIVE SelectWords(_, _, _, _, _, _, _)
\* the outer while loop of poll_all over the words
SelectWords(kinds, polls, maps, bits, nfds, i, res) ==
    IF ~(i < nfds) THEN res
    ELSE IF WordIsZero(bits.r \cup bits.w \cup bits.e, i)
    THEN SelectWords(kinds, polls, maps, bits, nfds, i + BITS_PER_USIZE, res)
    ELSE SelectWords(kinds, polls, maps, bits, nfds, i + BITS_PER_USIZE,
                     SelectWord(kinds, polls, maps, bits, nfds, i, 0, res))

\* FdSets::poll_all before the write-back : the three result sets and res_num
FdSetsPollAll(fd_sets) ==
    SelectWords(fdKind, fdPoll, interest, fd_sets.bits, fd_sets.nfds, 0,
                [r |-> {}, w |-> {}, e |-> {}, num |-> 0])

\* a result written to the caller's set unless the pointer is null
WriteBack(old, new, p) == IF p = "null" THEN old ELSE new

SelState == [selsets |-> selsets, err |-> "OK", val |-> 0]
SelFail(e) == [SelState EXCEPT !.err = e, !.val = 0 - 1]

\* the part sys_select and sys_pselect6 share, when the call returns; timeout
\* is "null", "bad" (an unmapped address) or "ts"
SelectCall(nfds, rp, wp, ep, timeout) ==
    IF nfds < 0 THEN SelFail("EINVAL")
    ELSE IF timeout = "bad" THEN SelFail("EFAULT")
    ELSE LET fd_sets == FdSetsFrom(Min(nfds, FD_SETSIZE), selsets, rp, wp, ep)
             res == FdSetsPollAll(fd_sets)
         IN  IF fd_sets.err # "OK" THEN SelFail(fd_sets.err)
             ELSE [selsets |-> [r |-> WriteBack(selsets.r, res.r, rp),
                                w |-> WriteBack(selsets.w, res.w, wp),
                                e |-> WriteBack(selsets.e, res.e, ep)],
                   err |-> "OK", val |-> res.num]

sys_select(nfds, rp, wp, ep, timeout) == SelectCall(nfds, rp, wp, ep, timeout)
sys_pselect6(nfds, rp, wp, ep, timeout) == SelectCall(nfds, rp, wp, ep, timeout)

\* nothing is ready and there is no deadline: the call does not return
SelectBlocks(nfds, rp, wp, ep, timeout) ==
    /\ nfds >= 0 /\ timeout = "null"
    /\ "bad" \notin {rp, wp, ep}
    /\ FdSetsPollAll(FdSetsFrom(Min(nfds, FD_SETSIZE), selsets, rp, wp, ep)).num = 0

(***************************************************************************)
(* The select specification: an fd table, three fd_set buffers of the      *)
(* caller, and any sequence of select and pselect6 calls on them.          *)
(***************************************************************************)
MaxSelWords == 2      \* words of an fd_set the caller sets bits in
\* the fds the caller names: in the table, beyond it, and one per further word
SelFds == Fds \cup {NFds} \cup {k * BITS_PER_USIZE : k \in 1..(MaxSelWords - 1)}
SelInputSets == {{}, {0, 1}, {1, NFds}} \cup {{1, fd} : fd \in SelFds \ (0..NFds)}
SelNfds == {0 - 1, 0, NFds, BITS_PER_USIZE + 1, FD_SETSIZE + 1}
SelPtrs == {[r |-> "ok", w |-> "ok", e |-> "ok"], [r |-> "null", w |-> "ok", e |-> "ok"],
            [r |-> "ok", w |-> "null", e |-> "ok"], [r |-> "ok", w |-> "ok", e |-> "null"],
            [r |-> "null", w |-> "null", e |-> "null"],
            [r |-> "ok", w |-> "bad", e |-> "ok"]}
SelPollStates == {PollState(TRUE, TRUE), PollState(TRUE, FALSE), PollFails}

SelInit ==
    /\ fdKind \in [Fds -> {"none", "file"}]
    /\ fdPoll \in [Fds -> SelPollStates \cup {PollState(FALSE, FALSE)}]
    /\ \A fd \in Fds : fdKind[fd] = "file" <=> fdPoll[fd] \in SelPollStates
    /\ interest = [fd \in Fds |-> EmptyMap]
    /\ lastSet = interest
    /\ delSet = [fd \in Fds |-> {}]
    /\ evbuf = <<>>
    /\ pollfds = <<>>
    /\ selsets \in [{"r", "w", "e"} -> SelInputSets]

SelApply(op, r) ==
    /\ selsets' = r.selsets
    /\ ret' = Call(op, r.err, r.val)
    /\ UNCHANGED <<fdKind, fdPoll, interest, lastSet, delSet, evbuf, pollfds,
                   shmVars, dirVars, waitVars, ioVars, pgVars, lockVars, execVars>>

Select == \E nfds \in SelNfds, p \in SelPtrs, timeout \in {"null", "bad", "ts"} :
              /\ ~SelectBlocks(nfds, p.r, p.w, p.e, timeout)
              /\ SelApply("select", sys_select(nfds, p.r, p.w, p.e, timeout))
Pselect6 == \E nfds \in SelNfds, p \in SelPtrs, timeout \in {"null", "bad", "ts"} :
                /\ ~SelectBlocks(nfds, p.r, p.w, p.e, timeout)
                /\ SelApply("pselect6", sys_pselect6(nfds, p.r, p.w, p.e, timeout))

SelNext == Select \/ Pselect6

InitSel == ShmInit /\ DirOpened(<<>>) /\ SelInit /\ TaskBooted(NoFiles) /\ WaitIdle /\ IoIdle /\ PgIdle /\ LockIdle
           /\ ret = NoCall

SpecSel == InitSel /\ [][SelNext]_vars

(***************************************************************************)
(* The wait loop of poll, ppoll, select, pselect6 and epoll_wait, one step *)
(* at a time: entry and deadline, sampling pass, deadline test, 1 ms       *)
(* sleep.  The calls have readable pointers; a timeout T is in ms, -1 for  *)
(* a negative timeout_ms or a NULL timeout pointer.                        *)
(***************************************************************************)
MaxTime == 3          \* the clock stops here
MaxTimeout == 2       \* the longest finite timeout passed

WaitKinds == {"poll", "ppoll", "select", "pselect6", "epoll_wait"}
WaitTimeouts == {0 - 1, 0, MaxTimeout}

\* the deadline computed at entry: None (-1) for an infinite timeout
DeadlineAt(t, T) == IF T < 0 THEN 0 - 1 ELSE t + T
\* a deadline test that does not look at the clock
DeadlineIgnored(deadline, t) == deadline # 0 - 1
\* deadline.is_some_and(|ddl| wall_time() >= ddl)
DeadlinePassed(deadline, t) == deadline # 0 - 1 /\ t >= deadline

WaitCalling == wcall.pc \notin {"idle", "done"}

\* the call returns val; of the call, its kind, timeout and nfds are kept
WaitReturn(w, val) ==
    /\ wcall' = [NoWait EXCEPT !.pc = "done", !.kind = w.kind, !.T = w.T, !.nfds = w.nfds]
    /\ ret' = Call(w.kind, "OK", val)

WaitFrame == UNCHANGED <<fdKind, fdPoll, interest, lastSet, delSet, ioVars, pgVars, lockVars,
                         shmVars, dirVars, execVars>>

\* the code of a call before its wait loop; the task makes calls of one kind
WaitEnter ==
    \E kind \in {wcall.kind}, T \in WaitTimeouts, nfds \in {0, 1},
       sets \in {[r |-> {0}, w |-> {}, e |-> {}]}, epfd \in {NFds - 1} :
        LET w == [NoWait EXCEPT !.kind = kind, !.T = T, !.entry = now, !.nfds = nfds,
                                !.maxevents = 1, !.epfd = epfd]
            looping == [w EXCEPT !.pc = "loop", !.deadline = DeadlineAt(now, T)]
            \* the nfds == 0 branch of poll and ppoll: return 0, after a sleep if
            \* there is one to make
            shortcut(d) == [w EXCEPT !.pc = "nfds0", !.wake = now + d]
        IN  /\ ~WaitCalling
            /\ now + (IF T < 0 THEN 0 ELSE T) <= MaxTime
            /\ UNCHANGED <<now, pollfds, evbuf>>
            /\ WaitFrame
            /\ IF kind = "poll" /\ nfds = 0
               THEN /\ wcall' = shortcut(IF T > 0 THEN T ELSE 0)
                    /\ UNCHANGED <<selsets, ret>>
               ELSE IF kind = "ppoll" /\ nfds = 0
               THEN /\ wcall' = shortcut(IF T >= 0 THEN T ELSE 0)
                    /\ UNCHANGED <<selsets, ret>>
               ELSE IF kind \in {"select", "pselect6"}
               THEN /\ wcall' = [looping EXCEPT
                                    !.bits = FdSetsFrom(nfds, sets, "ok", "ok", "ok").bits]
                    /\ selsets' = NoSets
                    /\ UNCHANGED ret
               ELSE /\ wcall' = looping
                    /\ UNCHANGED <<selsets, ret>>

\* one sampling pass, and the return when something is ready
WaitPass ==
    /\ wcall.pc = "loop"
    /\ UNCHANGED now
    /\ WaitFrame
    /\ IF wcall.kind \in {"poll", "ppoll"}
       THEN LET pass == PollPass(wcall.nfds)
            IN  /\ pollfds' = pass[1]
                /\ UNCHANGED <<selsets, evbuf>>
                /\ IF pass[2] > 0 THEN WaitReturn(wcall, pass[2])
                   ELSE wcall' = [wcall EXCEPT !.pc = "check"]
                        /\ UNCHANGED ret
       ELSE IF wcall.kind \in {"select", "pselect6"}
       THEN LET res == FdSetsPollAll([nfds |-> wcall.nfds, bits |-> wcall.bits])
            IN  /\ selsets' = [r |-> res.r, w |-> res.w, e |-> res.e]
                /\ UNCHANGED <<pollfds, evbuf>>
                /\ IF res.num > 0 THEN WaitReturn(wcall, res.num)
                   ELSE wcall' = [wcall EXCEPT !.pc = "check"]
                        /\ UNCHANGED ret
       ELSE LET evs == poll_all(fdKind, fdPoll, interest, interest[wcall.epfd],
                                wcall.maxevents)
            IN  /\ UNCHANGED <<pollfds, selsets>>
                /\ IF PollAllSpins(fdKind, fdPoll, interest, wcall.epfd, wcall.maxevents)
                   THEN wcall' = [wcall EXCEPT !.pc = "spin"] /\ UNCHANGED <<evbuf, ret>>
                   ELSE IF Len(evs) > 0
                   THEN evbuf' = evs /\ WaitReturn(wcall, Len(evs))
                   ELSE /\ wcall' = [wcall EXCEPT !.pc = "check"]
                        /\ UNCHANGED <<evbuf, ret>>

\* the deadline test after a pass that found nothing, then the 1 ms sleep
WaitCheck ==
    /\ wcall.pc = "check"
    /\ UNCHANGED <<now, pollfds, selsets, evbuf>>
    /\ WaitFrame
    /\ IF DeadlinePassed(wcall.deadline, now) THEN WaitReturn(wcall, 0)
       ELSE wcall' = [wcall EXCEPT !.pc = "sleep", !.wake = now + 1] /\ UNCHANGED ret

\* axtask::sleep returns once the clock has reached the wake-up time
WaitWake ==
    /\ wcall.pc = "sleep" /\ now >= wcall.wake
    /\ wcall' = [wcall EXCEPT !.pc = "loop", !.wake = 0]
    /\ UNCHANGED <<now, pollfds, selsets, evbuf, ret>>
    /\ WaitFrame

\* poll and ppoll with nfds == 0 return 0 once the sleep, if any, is over
WaitSlept ==
    /\ wcall.pc = "nfds0" /\ now >= wcall.wake
    /\ WaitReturn(wcall, 0)
    /\ UNCHANGED <<now, pollfds, selsets, evbuf>>
    /\ WaitFrame

\* the clock advances by 1 ms
Tick ==
    /\ now < MaxTime
    /\ now' = now + 1
    /\ UNCHANGED <<wcall, pollfds, selsets, evbuf, ret>>
    /\ WaitFrame

\* a file becomes readable, or stops being readable
FileReady ==
    \E fd \in Fds :
        /\ fdKind[fd] = "file"
        /\ fdPoll' = [fdPoll EXCEPT ![fd] = PollState(~fdPoll[fd].readable, FALSE)]
        /\ UNCHANGED <<fdKind, interest, lastSet, delSet, evbuf, pollfds, selsets,
                       waitVars, ioVars, pgVars, lockVars, ret, shmVars, dirVars, execVars>>

WaitInit ==
    /\ fdKind \in {[fd \in Fds |-> IF fd = 0 THEN k ELSE "epoll"] : k \in {"file", "epoll"}}
    /\ fdPoll \in {[fd \in Fds |-> PollState(fd = 0 /\ r, FALSE)] : r \in BOOLEAN}
    /\ fdKind[0] = "epoll" => ~fdPoll[0].readable
    /\ \E watched \in SUBSET Fds :
           interest = [fd \in Fds |->
                          IF fd = 0 THEN EmptyMap
                          ELSE [k \in watched |-> [events |-> EPOLLIN, data |-> k]]]
    /\ lastSet = interest
    /\ delSet = [fd \in Fds |-> {}]
    /\ evbuf = <<>>
    /\ pollfds = <<[fd |-> 0, events |-> POLLIN, revents |-> 0]>>
    /\ selsets = NoSets
    /\ now = 0
    /\ wcall \in {[NoWait EXCEPT !.kind = k] : k \in WaitKinds}

WaitStep == WaitPass \/ WaitCheck \/ WaitWake \/ WaitSlept

WaitNext == WaitEnter \/ WaitStep \/ Tick \/ FileReady

InitWait == ShmInit /\ DirOpened(<<>>) /\ WaitInit /\ TaskBooted(NoFiles) /\ IoIdle /\ PgIdle /\ LockIdle
            /\ ret = NoCall

SpecWait == InitWait /\ [][WaitNext]_vars

\* the clock advances and the scheduler runs the calling task
SpecWaitFair == SpecWait /\ WF_vars(Tick) /\ WF_vars(WaitStep)

(***************************************************************************)
(* copy_file_range and splice (api/src/imp/fs/io.rs).  The file-like       *)
(* objects (api/src/file, a collaborator) are regular files, with the      *)
(* bytes of the file and a current position per File object, and the two   *)
(* ends of one pipe.  Several fds may hold the same File object, and       *)
(* several File objects may be open on the same file.  An offset pointer   *)
(* is "null", "bad" (an unmapped address) or the name of an off_t cell of  *)
(* the caller.                                                             *)
(***************************************************************************)
DEFAULT_BUFFER_SIZE == 8192

MaxFileLen == 3       \* bytes in a file at the start, and the longest len passed
MaxGrown == 6         \* a file does not grow beyond this
PipeCap == 2          \* bytes the ring buffer of the pipe holds

IoState == [inodes |-> inodes, openFiles |-> openFiles, pipeBuf |-> pipeBuf,
            uoff |-> uoff]
IoResult(s, e, v) == [s |-> s, err |-> e, val |-> v]

\* File::from_fd and Pipe::from_fd : lookup and downcast
FileFromFd(fds, fd) ==
    IF fd \in DOMAIN fds /\ fds[fd].kind = "file" THEN "OK" ELSE "EBADF"
PipeFromFd(fds, fd) ==
    IF fd \in DOMAIN fds /\ fds[fd].kind = "pipe" THEN "OK" ELSE "EBADF"

Zeros(n) == [i \in 1..n |-> 0]
\* the bytes a read of n bytes at offset off returns
ReadAtData(data, off, n) == SubSeq(data, off + 1, Min(Len(data), off + n))
\* the file after bytes are written at offset off; a gap is filled with
\* zeros, and a write of no bytes changes nothing
WriteAtData(data, off, bytes) ==
    LET padded == IF off > Len(data) THEN data \o Zeros(off - Len(data)) ELSE data
    IN  IF bytes = <<>> THEN data
        ELSE SubSeq(padded, 1, off) \o bytes
                 \o SubSeq(padded, off + Len(bytes) + 1, Len(padded))

\* File::read : from the current position, which advances
FileRead(s, f, n) ==
    LET o == s.openFiles[f]
        bytes == ReadAtData(s.inodes[o.ino], o.pos, n)
    IN  [s |-> [s EXCEPT !.openFiles[f].pos = @ + Len(bytes)], bytes |-> bytes]
\* File::write : at the current position, which advances
FileWrite(s, f, bytes) ==
    LET o == s.openFiles[f]
    IN  [s |-> [s EXCEPT !.inodes[o.ino] = WriteAtData(@, o.pos, bytes),
                         !.openFiles[f].pos = @ + Len(bytes)],
         n |-> Len(bytes)]
\* File::read_at and File::write_at : the position is not used
FileReadAt(s, f, off, n) == ReadAtData(s.inodes[s.openFiles[f].ino], off, n)
FileWriteAt(s, f, off, bytes) ==
    [s |-> [s EXCEPT !.inodes[s.openFiles[f].ino] = WriteAtData(@, off, bytes)],
     n |-> Len(bytes)]
\* File::stat().size()
FileSize(s, f) == Len(s.inodes[s.openFiles[f].ino])

\* Pipe::available_data, Pipe::read and Pipe::write on the ring buffer
available_data(s) == Len(s.pipeBuf)
PipeRead(s, n) ==
    LET k == Min(n, Len(s.pipeBuf))
    IN  [s |-> [s EXCEPT !.pipeBuf = SubSeq(@, k + 1, Len(@))],
         bytes |-> SubSeq(s.pipeBuf, 1, k)]
PipeWrite(s, bytes) ==
    LET k == Min(Len(bytes), PipeCap - Len(s.pipeBuf))
    IN  [s |-> [s EXCEPT !.pipeBuf = @ \o SubSeq(bytes, 1, k)], n |-> k]

RECURSIVE CopyLoop(_, _, _, _, _, _, _)
\* the while loop of sys_copy_file_range
CopyLoop(s, file_in, file_out, off_in, off_out, remaining, total_copied) ==
    IF ~(remaining > 0) THEN IoResult(s, "OK", total_copied)
    ELSE LET chunk_size == Min(DEFAULT_BUFFER_SIZE, remaining)
             rd == IF off_in = "null"
                   THEN [err |-> "OK"] @@ FileRead(s, file_in, chunk_size)
                   ELSE IF off_in = "bad"
                   THEN [err |-> "EFAULT", s |-> s, bytes |-> <<>>]
                   ELSE LET bytes == FileReadAt(s, file_in, s.uoff[off_in], chunk_size)
                        IN  [err |-> "OK", bytes |-> bytes,
                             s |-> [s EXCEPT !.uoff[off_in] = @ + Len(bytes)]]
             read_bytes == Len(rd.bytes)
             wr == IF off_out = "null"
                   THEN [err |-> "OK"] @@ FileWrite(rd.s, file_out, rd.bytes)
                   ELSE IF off_out = "bad"
                   THEN [err |-> "EFAULT", s |-> rd.s, n |-> 0]
                   ELSE LET w == FileWriteAt(rd.s, file_out, rd.s.uoff[off_out], rd.bytes)
                        IN  [err |-> "OK", n |-> w.n,
                             s |-> [w.s EXCEPT !.uoff[off_out] = @ + w.n]]
         IN  IF rd.err # "OK" THEN IoResult(rd.s, rd.err, 0 - 1)
             ELSE IF read_bytes = 0 THEN IoResult(rd.s, "OK", total_copied)
             ELSE IF wr.err # "OK" THEN IoResult(wr.s, wr.err, 0 - 1)
             ELSE IF wr.n < read_bytes
             THEN IoResult(wr.s, "OK", total_copied + wr.n)
             ELSE CopyLoop(wr.s, file_in, file_out, off_in, off_out,
                           remaining - wr.n, total_copied + wr.n)

sys_copy_file_range(s, fds, fd_in, off_in, fd_out, off_out, len) ==
    IF fd_in = fd_out THEN IoResult(s, "EINVAL", 0 - 1)
    ELSE IF FileFromFd(fds, fd_in) # "OK" THEN IoResult(s, "EBADF", 0 - 1)
    ELSE IF FileFromFd(fds, fd_out) # "OK" THEN IoResult(s, "EBADF", 0 - 1)
    ELSE CopyLoop(s, fds[fd_in].obj, fds[fd_out].obj, off_in, off_out, len, 0)

RECURSIVE splice_pipe_to_file(_, _, _, _, _)
\* the while loop of splice_pipe_to_file
splice_pipe_to_file(s, file, off_out, remaining, total_copied) ==
    IF ~(remaining > 0) THEN IoResult(s, "OK", total_copied)
    ELSE IF available_data(s) = 0 THEN IoResult(s, "OK", total_copied)
    ELSE LET chunk_size == Min(Min(DEFAULT_BUFFER_SIZE, remaining), available_data(s))
             rd == PipeRead(s, chunk_size)
             bytes_read == Len(rd.bytes)
             w == FileWriteAt(rd.s, file, rd.s.uoff[off_out], rd.bytes)
             s2 == [w.s EXCEPT !.uoff[off_out] = @ + w.n]
         IN  IF bytes_read = 0 THEN IoResult(rd.s, "OK", total_copied)
             ELSE IF w.n < bytes_read THEN IoResult(s2, "OK", total_copied + w.n)
             ELSE splice_pipe_to_file(s2, file, off_out, remaining - w.n,
                                      total_copied + w.n)

RECURSIVE splice_file_to_pipe(_, _, _, _, _)
\* the while loop of splice_file_to_pipe
splice_file_to_pipe(s, file, off_in, remaining, total_copied) ==
    IF ~(remaining > 0) THEN IoResult(s, "OK", total_copied)
    ELSE IF s.uoff[off_in] >= FileSize(s, file) THEN IoResult(s, "OK", total_copied)
    ELSE LET chunk_size == Min(DEFAULT_BUFFER_SIZE, remaining)
             bytes == FileReadAt(s, file, s.uoff[off_in], chunk_size)
             read_bytes == Len(bytes)
             s1 == [s EXCEPT !.uoff[off_in] = @ + read_bytes]
             w == PipeWrite(s1, bytes)
         IN  IF read_bytes = 0 THEN IoResult(s1, "OK", total_copied)
             ELSE IF w.n < read_bytes THEN IoResult(w.s, "OK", total_copied + w.n)
             ELSE splice_file_to_pipe(w.s, file, off_in, remaining - w.n,
                                      total_copied + w.n)

\* the closure validate_offset of sys_splice
validate_offset(s, offset_ptr) ==
    IF offset_ptr = "null" THEN "OK"
    ELSE IF offset_ptr = "bad" THEN "EFAULT"
    ELSE IF s.uoff[offset_ptr] < 0 THEN "EINVAL"
    ELSE "OK"

\* a splice that makes no direction check
sys_splice_any_direction(s, fds, fd_in, off_in, fd_out, off_out, len) ==
    LET pipe_in == PipeFromFd(fds, fd_in) = "OK"
        pipe_out == PipeFromFd(fds, fd_out) = "OK"
    IN  IF fd_in = fd_out THEN IoResult(s, "EINVAL", 0 - 1)
        ELSE IF validate_offset(s, off_in) # "OK"
        THEN IoResult(s, validate_offset(s, off_in), 0 - 1)
        ELSE IF validate_offset(s, off_out) # "OK"
        THEN IoResult(s, validate_offset(s, off_out), 0 - 1)
        ELSE IF pipe_in /\ ~pipe_out
        THEN IF off_out = "null" THEN IoResult(s, "EINVAL", 0 - 1)
             ELSE IF FileFromFd(fds, fd_out) # "OK" THEN IoResult(s, "EBADF", 0 - 1)
             ELSE splice_pipe_to_file(s, fds[fd_out].obj, off_out, len, 0)
        ELSE IF ~pipe_in /\ pipe_out
        THEN IF off_in = "null" THEN IoResult(s, "EINVAL", 0 - 1)
             ELSE IF FileFromFd(fds, fd_in) # "OK" THEN IoResult(s, "EBADF", 0 - 1)
             ELSE splice_file_to_pipe(s, fds[fd_in].obj, off_in, len, 0)
        ELSE IoResult(s, "EINVAL", 0 - 1)

sys_splice(s, fds, fd_in, off_in, fd_out, off_out, len) ==
    LET pipe_in == PipeFromFd(fds, fd_in) = "OK"
        pipe_out == PipeFromFd(fds, fd_out) = "OK"
    IN  IF fd_in = fd_out THEN IoResult(s, "EINVAL", 0 - 1)
        ELSE IF validate_offset(s, off_in) # "OK"
        THEN IoResult(s, validate_offset(s, off_in), 0 - 1)
        ELSE IF validate_offset(s, off_out) # "OK"
        THEN IoResult(s, validate_offset(s, off_out), 0 - 1)
        ELSE IF pipe_in /\ ~pipe_out
        THEN \* pipe.readable() is the direction flag of the end
             IF ~fds[fd_in].readable THEN IoResult(s, "EPERM", 0 - 1)
             ELSE IF off_out = "null" THEN IoResult(s, "EINVAL", 0 - 1)
             ELSE IF FileFromFd(fds, fd_out) # "OK" THEN IoResult(s, "EBADF", 0 - 1)
             ELSE splice_pipe_to_file(s, fds[fd_out].obj, off_out, len, 0)
        ELSE IF ~pipe_in /\ pipe_out
        THEN \* pipe.writable() is !readable
             IF fds[fd_out].readable THEN IoResult(s, "EPERM", 0 - 1)
             ELSE IF off_in = "null" THEN IoResult(s, "EINVAL", 0 - 1)
             ELSE IF FileFromFd(fds, fd_in) # "OK" THEN IoResult(s, "EBADF", 0 - 1)
             ELSE splice_file_to_pipe(s, fds[fd_in].obj, off_in, len, 0)
        ELSE IoResult(s, "EINVAL", 0 - 1)

(***************************************************************************)
(* The copy specification: an fd table with files and a pipe; the caller   *)
(* positions its files and sets its off_t cells, then makes one            *)
(* copy_file_range or splice call.                                         *)
(***************************************************************************)
FileFd(f) == [kind |-> "file", obj |-> f, readable |-> FALSE]
PipeFd(r) == [kind |-> "pipe", obj |-> 0, readable |-> r]
\* fd 0 and fd 2 hold the same File object, fd 3 is another File object on the
\* file of fd 0, fd 1 is on another file, fd 4 and fd 5 are the read and the
\* write end of the pipe, fd 6 is closed
IoFdTable ==
    [fd \in 0..6 |-> CASE fd = 0 -> FileFd(1)
                       [] fd = 1 -> FileFd(2)
                       [] fd = 2 -> FileFd(1)
                       [] fd = 3 -> FileFd(3)
                       [] fd = 4 -> PipeFd(TRUE)
                       [] fd = 5 -> PipeFd(FALSE)
                       [] OTHER -> NoFd]
IoContents == {<<>>, <<1, 2, 3>>}
IoCells == {"a", "b"}
\* off_in is null, unmapped or cell a; off_out is null, unmapped or cell b
IoPtrsIn == {"null", "bad", "a"}
IoPtrsOut == {"null", "bad", "b"}
IoLens == {0, MaxFileLen - 1, MaxFileLen + 1}
\* no copy_file_range or splice call made yet
IoPreparing == ret.op \notin {"copy_file_range", "splice"}

IoInit ==
    /\ ioFds = IoFdTable
    /\ inodes \in [1..2 -> IoContents]
    /\ \E p \in {0, MaxFileLen} :
           openFiles = [f \in 1..3 |-> [ino |-> IF f = 2 THEN 2 ELSE 1,
                                        pos |-> IF f = 3 THEN p ELSE 0]]
    /\ pipeBuf \in {<<>>, <<7, 8>>}
    /\ uoff \in [IoCells -> {0 - 1, 0}]

\* the files stay within MaxGrown bytes, positions and offsets within reach
IoBounded(s) ==
    /\ \A i \in DOMAIN s.inodes : Len(s.inodes[i]) <= MaxGrown
    /\ \A f \in DOMAIN s.openFiles : s.openFiles[f].pos <= MaxGrown
    /\ \A c \in IoCells : s.uoff[c] <= MaxGrown

IoApply(op, r) ==
    /\ IoBounded(r.s)
    /\ inodes' = r.s.inodes
    /\ openFiles' = r.s.openFiles
    /\ pipeBuf' = r.s.pipeBuf
    /\ uoff' = r.s.uoff
    /\ ret' = Call(op, r.err, r.val)
    /\ UNCHANGED <<ioFds, shmVars, dirVars, mpxVars, waitVars, pgVars, lockVars, execVars>>

\* a negative offset makes read_at and write_at of the file system fail in a
\* way this model does not follow: copy_file_range is called without one
CopyFileRange ==
    \E fd_in \in DOMAIN ioFds, fd_out \in DOMAIN ioFds,
       off_in \in IoPtrsIn, off_out \in IoPtrsOut, len \in IoLens :
        /\ IoPreparing
        /\ \A p \in {off_in, off_out} \cap IoCells : uoff[p] >= 0
        /\ IoApply("copy_file_range",
                   sys_copy_file_range(IoState, ioFds, fd_in, off_in, fd_out, off_out, len))

Splice ==
    \E fd_in \in DOMAIN ioFds, fd_out \in DOMAIN ioFds,
       off_in \in IoPtrsIn, off_out \in IoPtrsOut, len \in IoLens :
        /\ IoPreparing
        /\ IoApply("splice", sys_splice(IoState, ioFds, fd_in, off_in, fd_out, off_out, len))

\* sys_lseek with SEEK_SET
Lseek ==
    \E fd \in DOMAIN ioFds, offset \in {1} :
        /\ IoPreparing
        /\ FileFromFd(ioFds, fd) = "OK"
        /\ IoApply("lseek", IoResult([IoState EXCEPT !.openFiles[ioFds[fd].obj].pos = offset],
                                     "OK", offset))

\* the caller stores a value in one of its off_t cells
SetOffset ==
    \E c \in IoCells, v \in {1} :
        /\ IoPreparing
        /\ uoff' = [uoff EXCEPT ![c] = v]
        /\ UNCHANGED <<ioFds, inodes, openFiles, pipeBuf, ret,
                       shmVars, dirVars, mpxVars, waitVars, pgVars, lockVars, execVars>>

IoNext == CopyFileRange \/ Splice \/ Lseek \/ SetOffset

InitIo == ShmInit /\ DirOpened(<<>>) /\ MpxInit /\ TaskBooted(NoFiles) /\ WaitIdle
          /\ PgIdle /\ LockIdle
          /\ IoInit /\ ret = NoCall

SpecIo == InitIo /\ [][IoNext]_vars

(***************************************************************************)
(* execve (api/src/imp/task/execve.rs) and the loader (core/src/mm.rs).    *)
(* A file is absent, data, a script with its first line after "#!" as a    *)
(* sequence of words, or an ELF image with its PT_INTERP path, its number  *)
(* of PT_LOAD segments and its entry point.  A word, like a path, is a     *)
(* sequence of strings.                                                    *)
(***************************************************************************)
MaxInterpDepth == 3   \* interpreter levels followed; a longer chain is a cycle
MaxSegs == 2          \* PT_LOAD segments of an ELF image
MaxThreads == 2       \* threads of the calling process

Script(line, utf8) == [kind |-> "script", line |-> line, utf8 |-> utf8]
Elf(interp, segs, entry) ==
    [kind |-> "elf", interp |-> interp, segs |-> segs, entry |-> entry]
DataFile == [kind |-> "data"]

\* axfs::api::read
read(fs, path) == IF path \in DOMAIN fs THEN fs[path] ELSE NoFile

\* axfs::api::canonicalize on an absolute path
canonicalize(path) == SelectSeq(path, LAMBDA c : c # ".")

LibcPath == <<"musl", "lib", "libc.so">>
WellKnownInterps ==
    { <<"lib", "ld-linux-riscv64-lp64.so.1">>,
      <<"lib", "ld-linux-riscv64-lp64d.so.1">>,
      <<"lib64", "ld-linux-loongarch-lp64d.so.1">>,
      <<"lib64", "ld-linux-x86-64.so.2">>,
      <<"lib", "ld-linux-aarch64.so.1">> }
\* the rewrite of the well-known dynamic linkers
remap_interp(interp_path) ==
    IF interp_path \in WellKnownInterps THEN LibcPath ELSE interp_path

RECURSIVE JoinWords(_)
JoinWords(ws) == IF ws = <<>> THEN <<>> ELSE Head(ws) \o JoinWords(Tail(ws))
\* line.splitn(2, whitespace): the interpreter and the rest of the line
shebang_split(line) ==
    IF line = <<>> THEN << <<>> >>
    ELSE IF Len(line) = 1 THEN line
    ELSE <<line[1], JoinWords(Tail(line))>>

\* a validation that lets every file through
validate_executable_any(data) == "OK"

validate_executable(data) ==
    IF data.kind \in {"script", "elf"} THEN "OK" ELSE "ENOEXEC"

\* AddrSpace::map_alloc of one area; budget is the number of map_alloc
\* calls the page allocator can still serve
map_alloc(uspace, area, budget) ==
    IF budget = 0 THEN [err |-> "NoMemory", uspace |-> uspace, budget |-> 0]
    ELSE [err |-> "OK", uspace |-> uspace \cup {area}, budget |-> budget - 1]

RECURSIVE MapSegments(_, _, _, _, _)
MapSegments(uspace, path, i, n, budget) ==
    IF i > n THEN [err |-> "OK", uspace |-> uspace, budget |-> budget]
    ELSE LET m == map_alloc(uspace, LoadArea(path, i), budget)
         IN  IF m.err # "OK" THEN m
             ELSE MapSegments(m.uspace, path, i + 1, n, m.budget)
map_elf(uspace, path, elf, budget) ==
    MapSegments(uspace, path, 1, elf.segs, budget)

\* kernel_elf_parser::app_stack_region: the image packed from the arguments
app_stack_region(args) == args

LoadFail(e, uspace) == [err |-> e, uspace |-> uspace, entry |-> 0, sp |-> 0]

LoadFinalElf(uspace, path, args, elf, budget) ==
    LET m == map_elf(uspace, path, elf, budget)
        stack_data == app_stack_region(args)
        st == map_alloc(m.uspace, StackArea, m.budget)
        hp == map_alloc(st.uspace, HeapArea, st.budget)
    IN  IF m.err # "OK" THEN LoadFail(m.err, m.uspace)
        ELSE IF st.err # "OK" THEN LoadFail(st.err, st.uspace)
        ELSE IF hp.err # "OK" THEN LoadFail(hp.err, hp.uspace)
        ELSE [err |-> "OK", uspace |-> hp.uspace, entry |-> elf.entry,
              sp |-> [below_top |-> Len(stack_data)]]

\* a call that follows a cycle of interpreters recurses without end and
\* does not return: "NORETURN"
RECURSIVE load_user_app(_, _, _, _, _, _)
load_user_app(fs, uspace, path, args, budget, depth) ==
    IF args = <<>> THEN LoadFail("InvalidInput", uspace)
    ELSE IF depth >= MaxInterpDepth THEN LoadFail("NORETURN", uspace)
    ELSE LET file_data == read(fs, path)
         IN  IF file_data.kind = "absent" THEN LoadFail("NotFound", uspace)
             ELSE IF file_data.kind = "script"
             THEN IF ~file_data.utf8 THEN LoadFail("InvalidData", uspace)
                  ELSE LET new_args == shebang_split(file_data.line) \o args
                       IN  load_user_app(fs, uspace, new_args[1], new_args,
                                         budget, depth + 1)
             ELSE IF file_data.kind # "elf" THEN LoadFail("InvalidData", uspace)
             ELSE IF file_data.interp.some
             THEN LET interp_path == remap_interp(canonicalize(file_data.interp.ent))
                      new_args == <<interp_path>> \o args
                  IN  load_user_app(fs, uspace, new_args[1], new_args,
                                    budget, depth + 1)
             ELSE LoadFinalElf(uspace, path, args, file_data, budget)

\* AddrSpace::unmap_user_areas
unmap_user_areas(uspace) == {}
map_trampoline(uspace) == uspace \cup {Trampoline}

\* path.rsplit_once('/') : the last component
Basename(path) == path[Len(path)]

ExecState ==
    [user_areas |-> user_areas, taskName |-> taskName,
     exe_path |-> exe_path, tf |-> tf, err |-> "OK", val |-> 0]
ExecFail(e) == [ExecState EXCEPT !.err = e]

\* an execve that does not look at the number of threads
sys_execve_multithreaded(path, argv, envp, budget) ==
    IF ~path.ok \/ ~argv.ok \/ ~envp.ok THEN ExecFail("EFAULT")
    ELSE LET file_data == read(files, path.str)
         IN  IF file_data.kind = "absent" THEN ExecFail("ENOENT")
             ELSE IF validate_executable(file_data) # "OK"
             THEN ExecFail(validate_executable(file_data))
             ELSE LET aspace0 == map_trampoline(unmap_user_areas(user_areas))
                      l == load_user_app(files, aspace0, path.str, argv.strs,
                                         budget, 0)
                  IN  IF l.err = "NORETURN"
                      THEN [ExecFail("NORETURN") EXCEPT !.user_areas = l.uspace]
                      ELSE IF l.err # "OK"
                      THEN [ExecFail("ENOENT") EXCEPT !.user_areas = l.uspace]
                      ELSE [user_areas |-> l.uspace,
                            taskName |-> Basename(path.str),
                            exe_path |-> path.str,
                            tf |-> TrapFrame(l.entry, l.sp),
                            err |-> "OK", val |-> 0]

sys_execve(path, argv, envp, budget) ==
    IF ~path.ok \/ ~argv.ok \/ ~envp.ok THEN ExecFail("EFAULT")
    ELSE IF nthreads > 1 THEN ExecFail("EAGAIN")
    ELSE LET file_data == read(files, path.str)
         IN  IF file_data.kind = "absent" THEN ExecFail("ENOENT")
             ELSE IF validate_executable(file_data) # "OK"
             THEN ExecFail(validate_executable(file_data))
             ELSE LET aspace0 == map_trampoline(unmap_user_areas(user_areas))
                      l == load_user_app(files, aspace0, path.str, argv.strs,
                                         budget, 0)
                  IN  IF l.err = "NORETURN"
                      THEN [ExecFail("NORETURN") EXCEPT !.user_areas = l.uspace]
                      ELSE IF l.err # "OK"
                      THEN [ExecFail("ENOENT") EXCEPT !.user_areas = l.uspace]
                      ELSE [user_areas |-> l.uspace,
                            taskName |-> Basename(path.str),
                            exe_path |-> path.str,
                            tf |-> TrapFrame(l.entry, l.sp),
                            err |-> "OK", val |-> 0]

(***************************************************************************)
(* The execve specification: a single process calls execve over a file     *)
(* system chosen at the start, and starts and ends a second thread.        *)
(***************************************************************************)
ShPath == <<"bin", "sh">>
FileContents ==
    { NoFile, DataFile,
      Script(<<ShPath, <<"-x">>, <<"-e">> >>, TRUE),
      Script(<<ShPath>>, FALSE),
      Elf(None, MaxSegs, 1),
      Elf(Some(<<"lib64", ".", "ld-linux-x86-64.so.2">>), 1, 2) }
FileSystems == [ExecPaths -> FileContents]
PathArgs == {[ok |-> TRUE, str |-> p] : p \in ExecPaths}
                \cup {[ok |-> FALSE, str |-> <<>>]}
ArgvArgs(p) == {[ok |-> TRUE, strs |-> <<>>], [ok |-> TRUE, strs |-> <<p>>],
                [ok |-> FALSE, strs |-> <<>>]}
EnvpArgs == {[ok |-> TRUE], [ok |-> FALSE]}

ExecInit == \E fs \in FileSystems : TaskBooted(fs)

Execve == \E path \in PathArgs, envp \in EnvpArgs, budget \in 0..(MaxSegs + 2) :
             \E argv \in ArgvArgs(path.str) :
                 LET r == sys_execve(path, argv, envp, budget)
                 IN  /\ r.err # "NORETURN"
                     /\ user_areas' = r.user_areas
                     /\ taskName' = r.taskName
                     /\ exe_path' = r.exe_path
                     /\ tf' = r.tf
                     /\ ret' = Call("execve", r.err, r.val)
                     /\ UNCHANGED <<files, nthreads, shmVars, dirVars, mpxVars, waitVars, ioVars, pgVars, lockVars>>

ThreadStart == /\ nthreads < MaxThreads
               /\ nthreads' = nthreads + 1
               /\ ret' = Call("clone", "OK", nthreads)
               /\ UNCHANGED <<files, user_areas, taskName, exe_path, tf,
                              shmVars, dirVars, mpxVars, waitVars, ioVars, pgVars, lockVars>>

ThreadExit == /\ nthreads > 1
              /\ nthreads' = nthreads - 1
              /\ ret' = Call("exit", "OK", 0)
              /\ UNCHANGED <<files, user_areas, taskName, exe_path, tf,
                             shmVars, dirVars, mpxVars, waitVars, ioVars, pgVars, lockVars>>

ExecNext == Execve \/ ThreadStart \/ ThreadExit

InitExec == ShmInit /\ DirOpened(<<>>) /\ MpxInit /\ ExecInit /\ WaitIdle /\ IoIdle /\ PgIdle /\ LockIdle
            /\ ret = NoCall

SpecExec == InitExec /\ [][ExecNext]_vars

(***************************************************************************)
(* The "#!" branch of load_user_app (core/src/mm.rs) byte by byte.  A file *)
(* is a sequence of one-character strings; "?" stands for a byte that is   *)
(* not valid UTF-8.  An argument is a sequence of characters too.          *)
(***************************************************************************)
ShebangMax == 256

MaxLineLen == 4       \* bytes after "#!" in the short files

is_ascii_whitespace(c) == c \in {" ", "\t", "\n", "\f", "\r"}

\* file_data.starts_with(b"#!")
starts_with_shebang(file_data) ==
    Len(file_data) >= 2 /\ file_data[1] = "#" /\ file_data[2] = "!"

\* &file_data[2..file_data.len().min(256)]
ShebangHead(file_data) == SubSeq(file_data, 3, Min(Len(file_data), ShebangMax))

\* head.iter().position(|c| *c == b'\n').unwrap_or(head.len()), and &head[..pos]
ShebangLine(head) ==
    LET nl == {i \in 1..Len(head) : head[i] = "\n"}
        pos == IF nl = {} THEN Len(head) ELSE SetMin(nl) - 1
    IN  SubSeq(head, 1, pos)

\* core::str::from_utf8
from_utf8(bytes) == IF \E i \in 1..Len(bytes) : bytes[i] = "?" THEN "InvalidData" ELSE "OK"

\* line.splitn(2, |c| c.is_ascii_whitespace())
splitn2(line) ==
    LET ws == {i \in 1..Len(line) : is_ascii_whitespace(line[i])}
    IN  IF ws = {} THEN <<line>>
        ELSE <<SubSeq(line, 1, SetMin(ws) - 1), SubSeq(line, SetMin(ws) + 1, Len(line))>>

\* a trim that leaves the piece as it is
trim_ascii_none(w) == w

\* str::trim_ascii
trim_ascii(w) ==
    LET keep == {i \in 1..Len(w) : ~is_ascii_whitespace(w[i])}
    IN  IF keep = {} THEN <<>>
        ELSE SubSeq(w, SetMin(keep), CHOOSE i \in keep : \A k \in keep : k <= i)

\* the "#!" branch: the path and the arguments load_user_app re-enters with
ShebangRedirect(file_data, args) ==
    LET head == ShebangHead(file_data)
        line == ShebangLine(head)
        pieces == splitn2(line)
        new_args == [i \in 1..Len(pieces) |-> trim_ascii(pieces[i])] \o args
    IN  IF args = <<>> THEN [err |-> "InvalidInput", path |-> <<>>, new_args |-> <<>>]
        ELSE IF from_utf8(line) # "OK"
        THEN [err |-> from_utf8(line), path |-> <<>>, new_args |-> <<>>]
        ELSE [err |-> "OK", path |-> new_args[1], new_args |-> new_args]

(***************************************************************************)
(* The shebang specification: a script chosen at the start, and            *)
(* load_user_app entered on it with the arguments below.                   *)
(***************************************************************************)
ShebangChars == {"s", "x", " ", "\n", "?"}
RECURSIVE ShebangBodies(_)
\* the byte strings of at most n bytes
ShebangBodies(n) ==
    IF n = 0 THEN {<<>>}
    ELSE LET shorter == ShebangBodies(n - 1)
         IN  shorter \cup {Append(b, c) : b \in shorter, c \in ShebangChars}
Repeat(c, n) == [i \in 1..n |-> c]
\* the short scripts, and two scripts whose first line goes beyond byte 256
ShebangFiles ==
    {<<"#", "!">> \o b : b \in ShebangBodies(MaxLineLen)}
        \cup {<<"#", "!">> \o Repeat("s", ShebangMax - 3) \o <<" ", "x", "\n">>,
              <<"#", "!">> \o Repeat("s", ShebangMax - 2) \o <<"x", "x">>}
RawScript(data) == [kind |-> "bytes", data |-> data]
ShebangArgvs == {<<>>, << <<"s">> >>, << <<"s">>, <<"a", "r", "g">> >>}

ShebangEnter ==
    \E path \in ExecPaths, args \in ShebangArgvs :
        LET r == ShebangRedirect(files[path].data, args)
        IN  /\ starts_with_shebang(files[path].data)
            /\ ret' = Call("load_user_app", r.err, r.new_args)
            /\ UNCHANGED <<execVars, shmVars, dirVars, mpxVars, waitVars, ioVars, pgVars, lockVars>>

ShebangNext == ShebangEnter

InitShebang ==
    /\ ShmInit /\ DirOpened(<<>>) /\ MpxInit /\ WaitIdle /\ IoIdle /\ PgIdle /\ LockIdle
    /\ \E d \in ShebangFiles : TaskBooted([p \in ExecPaths |-> RawScript(d)])
    /\ ret = NoCall

SpecShebang == InitShebang /\ [][ShebangNext]_vars

(***************************************************************************)
(* Process groups: sys_setpgid (api/src/imp/task/thread.rs) over the       *)
(* process table and the group table of the task model (a collaborator).   *)
(* A group is in the table while it has a member; every process carries    *)
(* the pgid of its group and the sid of that group's session.              *)
(***************************************************************************)
PgState == [processes |-> processes, groups |-> groups]
PgResult(s, e, v) == [s |-> s, err |-> e, val |-> v]

\* starry_core::task::get_process : the pid found in the table, or 0
get_process(s, pid) == IF pid \in Pids /\ s.processes[pid].alive THEN pid ELSE 0

\* starry_core::task::get_process_group : the pgid found in the table, or 0
get_process_group(s, pgid) == IF pgid \in Pids /\ s.groups[pgid] # 0 THEN pgid ELSE 0

\* the group table without the groups that no process is a member of
LiveGroups(procs, table) ==
    [g \in Pids |-> IF \E p \in Pids : procs[p].alive /\ procs[p].pgid = g
                    THEN table[g] ELSE 0]

\* Process::create_group when it returns a group: a new group led by p in
\* the session p is in
create_group(s, p) ==
    LET procs == [s.processes EXCEPT ![p].pgid = p]
    IN  [processes |-> procs,
         groups |-> LiveGroups(procs, [s.groups EXCEPT ![p] = s.processes[p].sid])]

\* Process::move_to_group when it returns true: p is a member of group g
move_to_group(s, p, g) ==
    LET procs == [s.processes EXCEPT ![p].pgid = g]
    IN  [processes |-> procs, groups |-> LiveGroups(procs, s.groups)]

\* a setpgid that moves the target into a group of any session
sys_setpgid_any_session(s, caller, pid, pgid, created, accepted) ==
    LET target == IF pid = 0 THEN caller ELSE get_process(s, pid)
    IN  IF target = 0 THEN PgResult(s, "ESRCH", 0)
        ELSE
        LET P == s.processes[target]
            target_pgid == IF pgid = 0 THEN target ELSE pgid
        IN  IF target_pgid = P.pgid THEN PgResult(s, "OK", 0)
            ELSE IF target # caller /\ P.parent # caller THEN PgResult(s, "ESRCH", 0)
            ELSE IF target # caller /\ P.sid # s.processes[caller].sid
                 THEN PgResult(s, "EPERM", 0)
            ELSE IF target_pgid = target
                 THEN IF created THEN PgResult(create_group(s, target), "OK", 0)
                      ELSE PgResult(s, "EPERM", 0)
            ELSE IF get_process_group(s, target_pgid) = 0 THEN PgResult(s, "EPERM", 0)
            ELSE IF ~accepted THEN PgResult(s, "EPERM", 0)
            ELSE PgResult(move_to_group(s, target, target_pgid), "OK", 0)

\* the same call with the parent check ahead of the no-op check
sys_setpgid_checked_first(s, caller, pid, pgid, created, accepted) ==
    LET target == IF pid = 0 THEN caller ELSE get_process(s, pid)
    IN  IF target = 0 THEN PgResult(s, "ESRCH", 0)
        ELSE
        LET P == s.processes[target]
            target_pgid == IF pgid = 0 THEN target ELSE pgid
        IN  IF target # caller /\ P.parent # caller THEN PgResult(s, "ESRCH", 0)
            ELSE IF target_pgid = P.pgid THEN PgResult(s, "OK", 0)
            ELSE IF target # caller /\ P.sid # s.processes[caller].sid
                 THEN PgResult(s, "EPERM", 0)
            ELSE IF target_pgid = target
                 THEN IF created THEN PgResult(create_group(s, target), "OK", 0)
                      ELSE PgResult(s, "EPERM", 0)
            ELSE IF get_process_group(s, target_pgid) = 0 THEN PgResult(s, "EPERM", 0)
            ELSE IF s.groups[target_pgid] # P.sid THEN PgResult(s, "EPERM", 0)
            ELSE IF ~accepted THEN PgResult(s, "EPERM", 0)
            ELSE PgResult(move_to_group(s, target, target_pgid), "OK", 0)

\* sys_setpgid called by process caller; created and accepted are what
\* create_group and move_to_group of the task model answer
sys_setpgid(s, caller, pid, pgid, created, accepted) ==
    LET target == IF pid = 0 THEN caller ELSE get_process(s, pid)
    IN  IF target = 0 THEN PgResult(s, "ESRCH", 0)
        ELSE
        LET P == s.processes[target]
            target_pgid == IF pgid = 0 THEN target ELSE pgid
        IN  IF target_pgid = P.pgid THEN PgResult(s, "OK", 0)
            ELSE IF target # caller /\ P.parent # caller THEN PgResult(s, "ESRCH", 0)
            ELSE IF target # caller /\ P.sid # s.processes[caller].sid
                 THEN PgResult(s, "EPERM", 0)
            ELSE IF target_pgid = target
                 THEN IF created THEN PgResult(create_group(s, target), "OK", 0)
                      ELSE PgResult(s, "EPERM", 0)
            ELSE IF get_process_group(s, target_pgid) = 0 THEN PgResult(s, "EPERM", 0)
            ELSE IF s.groups[target_pgid] # P.sid THEN PgResult(s, "EPERM", 0)
            ELSE IF ~accepted THEN PgResult(s, "EPERM", 0)
            ELSE PgResult(move_to_group(s, target, target_pgid), "OK", 0)

\* the arguments tried: pid 0 (self), every pid of the table and one beyond
PidArgs == 0..(NPids + 1)
Alive(p) == processes[p].alive
PgFrame == UNCHANGED <<shmVars, dirVars, mpxVars, waitVars, ioVars, lockVars, execVars>>

Setpgid ==
    \E caller \in Pids, pid \in PidArgs, pgid \in PidArgs, created \in BOOLEAN,
       accepted \in BOOLEAN :
        /\ Alive(caller)
        /\ LET r == sys_setpgid(PgState, caller, pid, pgid, created, accepted)
           IN  /\ processes' = r.s.processes
               /\ groups' = r.s.groups
               /\ ret' = Call("setpgid", r.err, r.val)
        /\ PgFrame

\* fork of the task model: the child gets a pid that names no process and no
\* group, and starts in the group and session of its parent
Fork ==
    \E parent \in Pids, child \in Pids :
        /\ Alive(parent)
        /\ ~Alive(child) /\ groups[child] = 0
        /\ processes' = [processes EXCEPT ![child] =
                            Process(parent, processes[parent].pgid, processes[parent].sid)]
        /\ UNCHANGED <<groups, ret>>
        /\ PgFrame

\* setsid of the task model: a process that leads no group starts a session
\* and a group of its own
Setsid ==
    \E p \in Pids :
        /\ Alive(p)
        /\ processes[p].pgid # p /\ groups[p] = 0
        /\ LET procs == [processes EXCEPT ![p].pgid = p, ![p].sid = p]
           IN  /\ processes' = procs
               /\ groups' = LiveGroups(procs, [groups EXCEPT ![p] = p])
        /\ UNCHANGED ret
        /\ PgFrame

\* exit of a process other than init: its children go to init
Exit ==
    \E p \in Pids \ {1} :
        /\ Alive(p)
        /\ LET procs == [q \in Pids |->
                            IF q = p THEN NoProcess
                            ELSE IF processes[q].alive /\ processes[q].parent = p
                                 THEN [processes[q] EXCEPT !.parent = 1]
                                 ELSE processes[q]]
           IN  /\ processes' = procs
               /\ groups' = LiveGroups(procs, groups)
        /\ UNCHANGED ret
        /\ PgFrame

PgNext == Setpgid \/ Fork \/ Setsid \/ Exit

InitPg == ShmInit /\ DirOpened(<<>>) /\ MpxInit /\ TaskBooted(NoFiles) /\ WaitIdle /\ IoIdle
          /\ PgIdle /\ LockIdle /\ ret = NoCall

SpecPg == InitPg /\ [][PgNext]_vars

(***************************************************************************)
(* The id allocator on registries near its limits: the counter next_id     *)
(* about to wrap, and up to MAX_ATTEMPTS occupied ids in a row from        *)
(* next_id on.  The segments of such a registry are one page each, made    *)
(* before the calls that are followed; their objects carry the handles     *)
(* -id.                                                                    *)
(***************************************************************************)
NextIds == {1, I32_MAX - 1, I32_MAX}
\* the n ids the loop probes first from nid on
ProbeWindow(nid, n) == {Probe(nid, k) : k \in 0..(n - 1)}
IdRegistries(nid) ==
    {{}, {nid}, ProbeWindow(nid, MAX_ATTEMPTS - 1), ProbeWindow(nid, MAX_ATTEMPTS)}

ShmIdInit ==
    \E nid \in NextIds : \E ids \in IdRegistries(nid) :
        /\ segments = [id \in ids |-> 0 - id]
        /\ shmObjs = [o \in {0 - id : id \in ids} |->
                         ShmSegmentNew(0 - o, IPC_PRIVATE, PAGE_SIZE_4K, 384)]
        /\ key_to_id = EmptyMap
        /\ next_id = nid
        /\ nextObj = 1
        /\ pagesFree = TotalPages
        /\ attached = [p \in Procs |-> EmptyMap]
        /\ aspace = [p \in Procs |-> {}]
        /\ removedIds = {}

ShmIdNext == ShmGet

InitShmId == ShmIdInit /\ DirOpened(<<>>) /\ MpxInit /\ TaskBooted(NoFiles) /\ WaitIdle
             /\ IoIdle /\ PgIdle /\ LockIdle /\ ret = NoCall

SpecShmId == InitShmId /\ [][ShmIdNext]_vars

(***************************************************************************)
(* The locks of a system call, step by step.  For shmctl, getdents64 and   *)
(* epoll_wait the events of one call, in program order, are computed from  *)
(* the arguments and the state: taking a lock, releasing it (the guard     *)
(* goes out of scope), and writing to the caller's memory.  A call is      *)
(* entered, steps through its events, and returns with the outcome of the  *)
(* call applied.                                                           *)
(***************************************************************************)
Lock(l) == [ev |-> "lock", lock |-> l]
Unlock(l) == [ev |-> "unlock", lock |-> l]
UserWrite == [ev |-> "uwrite", lock |-> "none"]
UserWrites(n) == [i \in 1..n |-> UserWrite]

\* sys_shmctl: the manager guard lives from the first statement to the end of
\* the function; get_attach_count, get_stat and set_perm take the segment's
\* shmid_ds lock for the length of the call; IPC_STAT stores through buf
sys_shmctl_locks(shmid, cmd, buf) ==
    <<Lock("shm_manager")>>
    \o (IF shmid \notin DOMAIN segments THEN <<>>
        ELSE IF cmd = IPC_RMID THEN <<Lock("shmid_ds"), Unlock("shmid_ds")>>
        ELSE IF cmd = IPC_STAT
        THEN IF buf = "null" THEN <<>>
             ELSE <<Lock("shmid_ds"), Unlock("shmid_ds"), UserWrite>>
        ELSE IF cmd = IPC_SET
        THEN IF buf = "null" THEN <<>>
             ELSE <<Lock("shmid_ds"), Unlock("shmid_ds")>>
        ELSE <<>>)
    \o <<Unlock("shm_manager")>>

\* sys_getdents64: the guard of the carry slot lives from dir.last_dirent()
\* to the end of the function, the guard of the iterator from dir.inner() to
\* the end; every write_entry that fits stores a record in the caller's buffer
sys_getdents64_locks(es, d, fdOk, bufOk, len) ==
    LET b0 == DirBufferNew(len)
        w0 == IF d.carry.some
              THEN write_entry(b0, FileTypeFrom(d.carry.ent.ty), d.carry.ent.name)
              ELSE <<TRUE, b0>>
        lp == GetdentsLoop(es, d.pos, w0[2])
    IN  IF ~bufOk \/ ~fdOk THEN <<>>
        ELSE <<Lock("last_dirent")>>
             \o (IF ~w0[1] THEN <<>>
                 ELSE UserWrites(Len(w0[2].recs))
                      \o <<Lock("inner")>>
                      \o UserWrites(Len(lp.b.recs) - Len(w0[2].recs))
                      \o <<Unlock("inner")>>)
             \o <<Unlock("last_dirent")>>

\* sys_epoll_wait: poll_all holds the guard of the interest map while it
\* samples and returns without it; the events are copied to the caller's
\* array afterwards
sys_epoll_wait_locks(epfd, bufOk, maxevents) ==
    IF maxevents <= 0 \/ from_fd(fdKind, epfd) # "OK" THEN <<>>
    ELSE <<Lock("events"), Unlock("events")>>
         \o (IF Len(poll_all(fdKind, fdPoll, interest, interest[epfd], maxevents)) > 0
                /\ bufOk
             THEN <<UserWrite>> ELSE <<>>)

LockCall(call, trace, out) == [call |-> call, pc |-> "enter", trace |-> trace, out |-> out]
NoCallRunning == lcall.pc = "idle"
LockFrame == UNCHANGED <<waitVars, ioVars, pgVars, execVars>>

LockEnterShmctl ==
    \E id \in ShmIds, cb \in ShmCtlArgs, perm \in ShmPerms :
        /\ NoCallRunning
        /\ lcall' = LockCall("shmctl", sys_shmctl_locks(id, cb[1], cb[2]),
                             sys_shmctl(id, cb[1], cb[2], perm))
        /\ UNCHANGED <<held, ret, shmVars, dirVars, mpxVars>>
        /\ LockFrame

LockEnterGetdents ==
    \E fdOk \in BOOLEAN, bufOk \in BOOLEAN, len \in BufSizes :
        /\ NoCallRunning
        /\ lcall' = LockCall("getdents64",
                             sys_getdents64_locks(dirEntries, DirState, fdOk, bufOk, len),
                             sys_getdents64(dirEntries, DirState, fdOk, bufOk, len))
        /\ UNCHANGED <<held, ret, shmVars, dirVars, mpxVars>>
        /\ LockFrame

LockEnterEpollWait ==
    \E epfd \in FdArgs, bufOk \in BOOLEAN, maxevents \in 0..2 :
        /\ NoCallRunning
        /\ ~EpollWaitBlocks(epfd, maxevents, 0)
        /\ lcall' = LockCall("epoll_wait", sys_epoll_wait_locks(epfd, bufOk, maxevents),
                             sys_epoll_wait(epfd, bufOk, maxevents, 0))
        /\ UNCHANGED <<held, ret, shmVars, dirVars, mpxVars>>
        /\ LockFrame

\* the next event of the call in progress
LockStep ==
    /\ ~NoCallRunning /\ lcall.trace # <<>>
    /\ LET e == Head(lcall.trace)
       IN  /\ held' = IF e.ev = "lock" THEN held \cup {e.lock}
                      ELSE IF e.ev = "unlock" THEN held \ {e.lock}
                      ELSE held
           /\ lcall' = [lcall EXCEPT !.pc = e.ev, !.trace = Tail(@)]
    /\ UNCHANGED <<ret, shmVars, dirVars, mpxVars>>
    /\ LockFrame

\* the call in progress returns
LockReturn ==
    /\ ~NoCallRunning /\ lcall.trace = <<>>
    /\ lcall' = NoLockCall
    /\ ret' = Call(lcall.call, lcall.out.err, lcall.out.val)
    /\ UNCHANGED held
    /\ LockFrame
    /\ LET r == lcall.out
       IN  \/ /\ lcall.call = "shmctl"
              /\ segments' = r.segments /\ key_to_id' = r.key_to_id
              /\ next_id' = r.next_id /\ shmObjs' = r.shmObjs /\ nextObj' = r.nextObj
              /\ pagesFree' = r.pagesFree /\ attached' = r.attached
              /\ aspace' = r.aspace /\ removedIds' = r.removedIds
              /\ UNCHANGED <<dirVars, mpxVars>>
           \/ /\ lcall.call = "getdents64"
              /\ dirPos' = r.pos /\ last_dirent' = r.carry /\ userBuf' = r.buf
              /\ emitted' = IF r.err = "OK" /\ r.val > 0 THEN emitted \o r.buf ELSE emitted
              /\ UNCHANGED <<dirEntries, shmVars, mpxVars>>
           \/ /\ lcall.call = "epoll_wait"
              /\ evbuf' = r.evbuf
              /\ UNCHANGED <<fdKind, fdPoll, interest, lastSet, delSet, pollfds, selsets,
                             shmVars, dirVars>>

\* shmget sets the scene for shmctl while the registry is empty
LockSetup == NoCallRunning /\ DOMAIN segments = {} /\ ShmGet

LockNext ==
    \/ LockEnterShmctl \/ LockEnterGetdents \/ LockEnterEpollWait
    \/ LockStep \/ LockReturn \/ LockSetup

\* the directory of the lock specification
LockDir == <<[name |-> <<97>>, ty |-> "file"], [name |-> <<98, 98>>, ty |-> "dir"],
             [name |-> <<99, 99, 99, 99, 99>>, ty |-> "file"]>>

\* the fd table after open, epoll_create and epoll_ctl(ADD) of the file: fd 0
\* is a file in poll state st, fd 1 an epoll instance watching fd 0 for ev
EpollWatching(st, ev) ==
    /\ fdKind = [fd \in Fds |-> IF fd = 0 THEN "file" ELSE IF fd = 1 THEN "epoll" ELSE "none"]
    /\ fdPoll = [fd \in Fds |-> IF fd = 0 THEN st ELSE PollState(FALSE, FALSE)]
    /\ interest = [fd \in Fds |-> IF fd = 1 THEN MapPut(EmptyMap, 0, ev) ELSE EmptyMap]
    /\ lastSet = [fd \in Fds |-> IF fd = 1 THEN MapPut(EmptyMap, 0, ev) ELSE EmptyMap]
    /\ delSet = [fd \in Fds |-> {}]
    /\ evbuf = <<>>
    /\ pollfds = <<>>
    /\ selsets = NoSets

InitLock ==
    /\ ShmInit /\ TaskBooted(NoFiles) /\ WaitIdle /\ IoIdle /\ PgIdle /\ LockIdle
    /\ DirOpened(LockDir)
    /\ MpxInit \/ \E st \in {PollState(TRUE, FALSE), PollFails}, ev \in EpollEvents :
                      EpollWatching(st, ev)
    /\ ret = NoCall

SpecLock == InitLock /\ [][LockNext]_vars

(***************************************************************************)
(* /proc/self/exe: resolve_symlink_path (core/src/file/mod.rs) and         *)
(* SelfExe::readlink (core/src/file/proc/selfs.rs).  A path is a sequence  *)
(* of one-character strings; the file system maps the paths that exist to  *)
(* a regular file or to a symlink with its target; "?" stands for a byte   *)
(* that is not valid UTF-8.                                                *)
(***************************************************************************)
MAX_SYMLINK_DEPTH == 8
MaxLinks == 9         \* symlinks of the longest chain

RegularFile == [kind |-> "file", target |-> <<>>]
SymLink(target) == [kind |-> "symlink", target |-> target]

\* axfs::api::read_link : the target of a symlink, an error for anything else
read_link(fs, path) ==
    IF path \in DOMAIN fs /\ fs[path].kind = "symlink"
    THEN [ok |-> TRUE, target |-> fs[path].target]
    ELSE [ok |-> FALSE, target |-> <<>>]

\* core::str::from_utf8 succeeds
ValidUtf8(bytes) == \A i \in 1..Len(bytes) : bytes[i] # "?"

\* str::rfind('/') : the last position of a slash, 0 for None
RFindSlash(path) ==
    IF \E i \in 1..Len(path) : path[i] = "/"
    THEN CHOOSE i \in 1..Len(path) :
             path[i] = "/" /\ \A j \in (i + 1)..Len(path) : path[j] # "/"
    ELSE 0

\* the path a link at current_path with this target leads to: the target when
\* it is absolute, else the target after the parent directory of current_path
LinkedPath(current_path, target) ==
    IF target # <<>> /\ target[1] = "/" THEN target
    ELSE IF RFindSlash(current_path) > 0
    THEN SubSeq(current_path, 1, RFindSlash(current_path) - 1) \o <<"/">> \o target
    ELSE target

RECURSIVE ResolveLoop(_, _, _, _)
\* the for loop of resolve_symlink_path after i turns, and the statement after it
ResolveLoop(fs, path, current_path, i) ==
    IF i = MAX_SYMLINK_DEPTH THEN [path |-> path, reads |-> i]
    ELSE LET l == read_link(fs, current_path)
         IN  IF ~l.ok THEN [path |-> current_path, reads |-> i + 1]
             ELSE IF ~ValidUtf8(l.target) THEN [path |-> path, reads |-> i + 1]
             ELSE ResolveLoop(fs, path, LinkedPath(current_path, l.target), i + 1)

\* resolve_symlink_path, with the number of read_link calls it made
resolve_symlink_path(fs, path) == ResolveLoop(fs, path, path, 0)

\* SelfExe::readlink into a buffer of buflen bytes
SelfExeReadlink(fs, exe, buflen) ==
    LET target == resolve_symlink_path(fs, exe).path
        copy_len == Min(buflen, Len(target))
    IN  [err |-> "OK", val |-> copy_len, buf |-> SubSeq(target, 1, copy_len)]

\* the name of the i-th link of a chain, and of the file at its end
LinkName(i) == [j \in 1..i |-> "l"]
FileName == <<"b">>
\* the directories the chains live in: /d, the root, and the working directory
\* of a recorded path that has no slash
LinkDirs == {"/d", "/", "cwd"}
InDir(dir, name) ==
    IF dir = "/d" THEN <<"/", "d", "/">> \o name
    ELSE IF dir = "/" THEN <<"/">> \o name
    ELSE name
\* how the links of a chain name their targets
LinkStyles == {"absolute", "relative", "mixed"}
TargetOf(dir, style, i, name) ==
    IF dir # "cwd" /\ (style = "absolute" \/ (style = "mixed" /\ i % 2 = 1))
    THEN InDir(dir, name)
    ELSE name
\* where the last link of a chain leads: a regular file, nothing, the first
\* link again, or a target that is not valid UTF-8
ChainEnds == {"file", "dangling", "cycle", "not utf-8"}
\* the file system with a chain of k links in dir
ChainFs(dir, style, k, end) ==
    LET link(i) ==
            IF i < k THEN SymLink(TargetOf(dir, style, i, LinkName(i + 1)))
            ELSE IF end = "cycle" THEN SymLink(TargetOf(dir, style, i, LinkName(1)))
            ELSE IF end = "not utf-8" THEN SymLink(<<"?">>)
            ELSE SymLink(TargetOf(dir, style, i, FileName))
        paths == {InDir(dir, LinkName(i)) : i \in 1..k}
                 \cup (IF end = "file" \/ k = 0 THEN {InDir(dir, FileName)} ELSE {})
    IN  [p \in paths |-> IF p = InDir(dir, FileName) THEN RegularFile
                         ELSE link(Len(p) - Len(InDir(dir, <<>>)))]
LinkFileSystems ==
    {ChainFs(dir, style, k, end) :
         dir \in LinkDirs, style \in LinkStyles, k \in 0..MaxLinks, end \in ChainEnds}

LinkBufLens == {0, 3, 4096}
LinkFrame ==
    UNCHANGED <<shmVars, dirVars, mpxVars, waitVars, ioVars, pgVars, lockVars,
                user_areas, taskName, tf, nthreads>>

\* readlink("/proc/self/exe", buf, buflen)
ProcSelfExeReadlink ==
    \E buflen \in LinkBufLens :
        LET r == SelfExeReadlink(files, exe_path, buflen)
        IN  /\ ret' = Call("readlink", r.err, r.buf)
            /\ UNCHANGED <<files, exe_path>>
            /\ LinkFrame

\* execve of a path of the file system records the path
LinkExec ==
    \E p \in DOMAIN files :
        /\ exe_path' = p
        /\ ret' = Call("execve", "OK", <<>>)
        /\ UNCHANGED files
        /\ LinkFrame

LinkNext == ProcSelfExeReadlink \/ LinkExec

\* a task whose recorded path is the start of the chain, or the file itself
LinkBooted ==
    /\ files \in LinkFileSystems
    /\ exe_path \in {p \in DOMAIN files : \A q \in DOMAIN files : Len(p) <= Len(q)
                                            \/ files[p].kind = "file"}
    /\ user_areas = {Trampoline, LoadArea(InitPath, 1), StackArea, HeapArea}
    /\ taskName = "init"
    /\ tf = TrapFrame(0, [below_top |-> 1])
    /\ nthreads = 1

InitLink ==
    /\ ShmInit /\ DirOpened(<<>>) /\ MpxInit /\ WaitIdle /\ IoIdle /\ PgIdle /\ LockIdle
    /\ LinkBooted
    /\ ret = NoCall

SpecLink == InitLink /\ [][LinkNext]_vars

(***************************************************************************)
(* epoll_wait on an instance that watches several files: the fd table      *)
(* after NWatched files and one epoll instance have been opened; the files *)
(* are registered, modified, removed and closed, and epoll_wait is called. *)
(***************************************************************************)
NWatched == 3         \* files a watched fd table holds
WatchedFds == 0..(NWatched - 1)
TheEpfd == NWatched
\* the cookie a caller registers with fd
Cookie(fd) == 100 + fd
WatchEvents(fd) == {[events |-> EPOLLIN, data |-> Cookie(fd)],
                    [events |-> EPOLLOUT + EPOLLERR, data |-> Cookie(fd)]}
WatchMaxEvents == {0, 1, 2, 8}
WatchTimeouts == {0, 100}

WatchCtl ==
    \E op \in {EPOLL_CTL_ADD, EPOLL_CTL_DEL, EPOLL_CTL_MOD}, fd \in WatchedFds :
        \E e \in WatchEvents(fd) :
            LET r == sys_epoll_ctl(TheEpfd, op, fd, [ptr |-> "ok", ev |-> e])
            IN  /\ MpxApply("epoll_ctl", r)
                /\ lastSet' = IF r.err # "OK" THEN lastSet
                              ELSE IF op = EPOLL_CTL_DEL
                              THEN [lastSet EXCEPT ![TheEpfd] = MapDel(@, fd)]
                              ELSE [lastSet EXCEPT ![TheEpfd] = MapPut(@, fd, e)]
                /\ delSet' = IF r.err # "OK" THEN delSet
                             ELSE IF op = EPOLL_CTL_DEL
                             THEN [delSet EXCEPT ![TheEpfd] = @ \cup {fd}]
                             ELSE [delSet EXCEPT ![TheEpfd] = @ \ {fd}]

WatchClose ==
    \E fd \in WatchedFds :
        /\ MpxApply("close", sys_close(fd))
        /\ UNCHANGED <<lastSet, delSet>>

WatchWait ==
    \E bufOk \in BOOLEAN, maxevents \in WatchMaxEvents, timeout \in WatchTimeouts :
        /\ ~EpollWaitBlocks(TheEpfd, maxevents, timeout)
        /\ MpxApply("epoll_wait", sys_epoll_wait(TheEpfd, bufOk, maxevents, timeout))
        /\ UNCHANGED <<lastSet, delSet>>

WatchNext == WatchCtl \/ WatchClose \/ WatchWait

\* the fd table after the opens and epoll_create: every poll state is that
\* of some file, and with three files each is that of one file
WatchTable ==
    /\ fdKind = [fd \in 0..NWatched |-> IF fd = TheEpfd THEN "epoll" ELSE "file"]
    /\ \E polls \in {f \in [WatchedFds -> FilePollStates] :
                         \A st \in FilePollStates : \E fd \in WatchedFds : f[fd] = st} :
           fdPoll = [fd \in 0..NWatched |->
                         IF fd = TheEpfd THEN PollState(FALSE, FALSE) ELSE polls[fd]]
    /\ interest = [fd \in 0..NWatched |-> EmptyMap]
    /\ lastSet = [fd \in 0..NWatched |-> EmptyMap]
    /\ delSet = [fd \in 0..NWatched |-> {}]
    /\ evbuf = <<>>
    /\ pollfds = <<>>
    /\ selsets = NoSets

InitWatch ==
    /\ ShmInit /\ DirOpened(<<>>) /\ TaskBooted(NoFiles) /\ WaitIdle /\ IoIdle /\ PgIdle
    /\ LockIdle
    /\ WatchTable
    /\ ret = NoCall

SpecWatch == InitWatch /\ [][WatchNext]_vars

(***************************************************************************)
(* epoll_wait on one file whose readiness changes: fd 0 is the file, fd 1  *)
(* the epoll instance; the file is registered with any mask of EPOLLIN,    *)
(* EPOLLOUT and EPOLLERR.                                                  *)
(***************************************************************************)
MaskFile == 0
MaskEpfd == 1
MaskCookie == 7
MaskPollStates == {PollState(r, w) : r \in BOOLEAN, w \in BOOLEAN} \cup {PollFails}
MaskEvents ==
    {[events |-> i + o + e, data |-> MaskCookie] :
         i \in {0, EPOLLIN}, o \in {0, EPOLLOUT}, e \in {0, EPOLLERR}}

MaskCtl ==
    \E op \in {EPOLL_CTL_ADD, EPOLL_CTL_DEL, EPOLL_CTL_MOD}, e \in MaskEvents :
        LET r == sys_epoll_ctl(MaskEpfd, op, MaskFile, [ptr |-> "ok", ev |-> e])
        IN  /\ MpxApply("epoll_ctl", r)
            /\ lastSet' = IF r.err # "OK" THEN lastSet
                          ELSE IF op = EPOLL_CTL_DEL
                          THEN [lastSet EXCEPT ![MaskEpfd] = MapDel(@, MaskFile)]
                          ELSE [lastSet EXCEPT ![MaskEpfd] = MapPut(@, MaskFile, e)]
            /\ delSet' = IF r.err # "OK" THEN delSet
                         ELSE IF op = EPOLL_CTL_DEL
                         THEN [delSet EXCEPT ![MaskEpfd] = @ \cup {MaskFile}]
                         ELSE [delSet EXCEPT ![MaskEpfd] = @ \ {MaskFile}]

\* the readiness of the file changes: data arrives or is read, room appears
\* or is used up, the file starts or stops failing
MaskReady ==
    \E st \in MaskPollStates :
        /\ fdPoll' = [fdPoll EXCEPT ![MaskFile] = st]
        /\ UNCHANGED <<fdKind, interest, lastSet, delSet, evbuf, pollfds, selsets, ret>>
        /\ UNCHANGED <<shmVars, dirVars, waitVars, ioVars, pgVars, lockVars, execVars>>

MaskWait ==
    \E bufOk \in BOOLEAN, maxevents \in 0..2 :
        /\ MpxApply("epoll_wait", sys_epoll_wait(MaskEpfd, bufOk, maxevents, 0))
        /\ UNCHANGED <<lastSet, delSet>>

MaskNext == MaskCtl \/ MaskReady \/ MaskWait

\* the fd table after open and epoll_create
MaskTable ==
    /\ fdKind = [fd \in Fds |-> IF fd = MaskFile THEN "file"
                                ELSE IF fd = MaskEpfd THEN "epoll" ELSE "none"]
    /\ fdPoll = [fd \in Fds |-> PollState(FALSE, FALSE)]
    /\ interest = [fd \in Fds |-> EmptyMap]
    /\ lastSet = [fd \in Fds |-> EmptyMap]
    /\ delSet = [fd \in Fds |-> {}]
    /\ evbuf = <<>>
    /\ pollfds = <<>>
    /\ selsets = NoSets

InitMask ==
    /\ ShmInit /\ DirOpened(<<>>) /\ TaskBooted(NoFiles) /\ WaitIdle /\ IoIdle /\ PgIdle
    /\ LockIdle
    /\ MaskTable
    /\ ret = NoCall

SpecMask == InitMask /\ [][MaskNext]_vars

(***************************************************************************)
(* The shm calls of several threads, interleaved at their lock             *)
(* acquisitions (api/src/imp/mm/shm.rs).  lcall holds, per thread, the     *)
(* call in progress or the last one; held holds, per thread, its locks.    *)
(* A step of a thread runs from one acquisition of a contended lock to the *)
(* next.  What a call does between two acquisitions is applied in the step *)
(* in which other threads can first see it: the attach count under the     *)
(* manager lock or at dec_attach, the attachment table and the mappings of *)
(* a process while its address-space lock is held.                         *)
(***************************************************************************)
NThreads == 2         \* threads issuing shm calls
NConcProcs == 2       \* processes the threads belong to
MaxConcSegs == 1      \* segment creations attempted by the threads
ConcThreads == 1..NThreads
ConcProcs == 1..NConcProcs

AspaceLock(p) == <<"aspace", p>>
ShmDataLock(p) == <<"shm_data", p>>
ManagerLock == <<"shm_manager", 0>>
LockFree(l) == \A t \in ConcThreads : l \notin held[t]

ThreadIdle(p) ==
    [proc |-> p, call |-> "none", pc |-> "idle", id |-> 0, addr |-> 0, cmd |-> 0,
     valid |-> FALSE, err |-> "OK", val |-> 0]
\* thread t has no call in progress
Returned(t) == lcall[t].pc \in {"idle", "done"}
\* the call of t has returned: its kind, its result and whether it was a
\* shmdt of an attachment are kept
ThreadDone(t, r) ==
    [ThreadIdle(lcall[t].proc) EXCEPT !.call = lcall[t].call, !.pc = "done",
                                      !.valid = lcall[t].valid, !.err = r.err]

ConcApply(r) ==
    /\ segments' = r.segments /\ key_to_id' = r.key_to_id /\ next_id' = r.next_id
    /\ shmObjs' = r.shmObjs /\ nextObj' = r.nextObj /\ pagesFree' = r.pagesFree
    /\ attached' = r.attached /\ aspace' = r.aspace /\ removedIds' = r.removedIds
ConcFrame == UNCHANGED <<dirVars, mpxVars, waitVars, ioVars, pgVars, execVars>>

\* what the threads of the concurrent specification pass
ConcGetArgs == {<<IPC_PRIVATE, PAGE_SIZE_4K, 384>>}
ConcCtlArgs == {<<IPC_RMID, "null">>, <<IPC_STAT, "ok">>}

\* sys_shmget: the manager guard lives for the one statement that calls
\* get_or_create
ConcShmget(t) ==
    \E a \in ConcGetArgs :
        \E allocOk \in AllocOutcomes(align_up_4k(a[2]) \div PAGE_SIZE_4K) :
            LET r == sys_shmget(a[1], a[2], a[3], allocOk)
            IN  /\ Returned(t) /\ LockFree(ManagerLock)
                /\ ShmWithin(r) /\ r.nextObj <= MaxConcSegs + 1
                /\ ConcApply(r)
                /\ lcall' = [lcall EXCEPT ![t] =
                                 [ThreadDone(t, r) EXCEPT !.call = "shmget",
                                                          !.valid = FALSE]]
                /\ ret' = Call("shmget", r.err, r.val)
                /\ UNCHANGED held
                /\ ConcFrame

\* sys_shmat takes the address-space lock of its process
ConcShmatEnter(t) ==
    \E id \in DOMAIN segments \cup removedIds :
        /\ Returned(t) /\ LockFree(AspaceLock(lcall[t].proc))
        /\ lcall' = [lcall EXCEPT ![t] =
                         [ThreadIdle(lcall[t].proc) EXCEPT
                              !.call = "shmat", !.pc = "at_wait_manager", !.id = id]]
        /\ held' = [held EXCEPT ![t] = {AspaceLock(lcall[t].proc)}]
        /\ UNCHANGED <<shmVars, ret>>
        /\ ConcFrame

\* sys_shmat takes the manager lock for the lookup, validate_segment and
\* inc_attach, drops it, maps the segment and records the attachment under
\* the shm_data lock of its process, which only a holder of the address-space
\* lock takes
ConcShmatAttach(t) ==
    LET r == sys_shmat(lcall[t].proc, lcall[t].id, 0, 0)
    IN  /\ lcall[t].pc = "at_wait_manager" /\ LockFree(ManagerLock)
        /\ ShmWithin(r)
        /\ ConcApply(r)
        /\ lcall' = [lcall EXCEPT ![t] = ThreadDone(t, r)]
        /\ held' = [held EXCEPT ![t] = {}]
        /\ ret' = Call("shmat", r.err, r.val)
        /\ ConcFrame

\* sys_shmdt takes the address-space and shm_data locks of its process, looks
\* the attachment up and calls dec_attach
ConcShmdtDetach(t) ==
    \E addr \in {0} \cup DOMAIN attached[lcall[t].proc] :
        LET p == lcall[t].proc
            found == addr \in DOMAIN attached[p]
        IN  /\ Returned(t) /\ LockFree(AspaceLock(p))
            /\ lcall' = [lcall EXCEPT ![t] =
                             [ThreadIdle(p) EXCEPT
                                  !.call = "shmdt", !.valid = found,
                                  !.id = IF found THEN attached[p][addr].id ELSE 0,
                                  !.pc = IF found THEN "dt_wait_manager" ELSE "done",
                                  !.addr = IF found THEN addr ELSE 0,
                                  !.err = IF found THEN "OK" ELSE "EINVAL"]]
            /\ held' = [held EXCEPT ![t] =
                            IF found THEN {AspaceLock(p), ShmDataLock(p)} ELSE {}]
            /\ shmObjs' = IF found
                          THEN [shmObjs EXCEPT ![attached[p][addr].obj] = dec_attach(@)]
                          ELSE shmObjs
            /\ ret' = IF found THEN ret ELSE Call("shmdt", "EINVAL", 0 - 1)
            /\ UNCHANGED <<segments, key_to_id, next_id, nextObj, pagesFree, attached,
                           aspace, removedIds>>
            /\ ConcFrame

\* the attachment table and the address space of p with the attachment at
\* addr gone: detach and unmap, which sys_shmdt did under the locks of p
Detached(p, addr) ==
    [ShmState EXCEPT !.attached[p] = MapDel(@, addr),
                     !.aspace[p] = @ \ PagesOf(addr, shmObjs[attached[p][addr].obj].size)]

\* sys_shmdt takes the manager lock, tests marked_for_deletion and the attach
\* count, removes the segment, and returns
ConcShmdtRemove(t) ==
    LET p == lcall[t].proc
        addr == lcall[t].addr
        o == attached[p][addr].obj
        st1 == Detached(p, addr)
        gc == Collect(st1.shmObjs, st1.segments, st1.attached, st1.pagesFree)
        r == IF DetachRemoves(shmObjs[o])
             THEN LET rm == ManagerRemove(st1, lcall[t].id)
                  IN  IF rm.err = "OK" THEN rm
                      ELSE [rm EXCEPT !.shmObjs = gc[1], !.pagesFree = gc[2]]
             ELSE [st1 EXCEPT !.shmObjs = gc[1], !.pagesFree = gc[2]]
    IN  /\ lcall[t].pc = "dt_wait_manager" /\ LockFree(ManagerLock)
        /\ ConcApply(r)
        /\ lcall' = [lcall EXCEPT ![t] = ThreadDone(t, r)]
        /\ held' = [held EXCEPT ![t] = {}]
        /\ ret' = Call("shmdt", r.err, r.val)
        /\ ConcFrame

\* sys_shmctl takes the manager lock; IPC_RMID runs to its end under it;
\* IPC_STAT comes to the access to buf with the lock held
ConcShmctlEnter(t) ==
    \E id \in DOMAIN segments \cup removedIds, cb \in ConcCtlArgs :
        LET r == sys_shmctl(id, cb[1], cb[2], CHOOSE perm \in ShmPerms : TRUE)
            toBuf == id \in DOMAIN segments /\ cb[1] = IPC_STAT
        IN  /\ Returned(t) /\ LockFree(ManagerLock)
            /\ lcall' = [lcall EXCEPT ![t] =
                             [ThreadIdle(lcall[t].proc) EXCEPT
                                  !.call = "shmctl",
                                  !.id = IF toBuf THEN id ELSE 0,
                                  !.cmd = IF toBuf THEN cb[1] ELSE 0,
                                  !.pc = IF toBuf THEN "ctl_wait_aspace" ELSE "done",
                                  !.err = IF toBuf THEN "OK" ELSE r.err]]
            /\ held' = [held EXCEPT ![t] = IF toBuf THEN {ManagerLock} ELSE {}]
            /\ IF toBuf THEN UNCHANGED <<shmVars, ret>>
               ELSE ConcApply(r) /\ ret' = Call("shmctl", r.err, r.val)
            /\ ConcFrame

\* the access to buf needs the address space of the caller; then the manager
\* guard goes out of scope
ConcShmctlAccess(t) ==
    LET r == sys_shmctl(lcall[t].id, lcall[t].cmd, "ok", CHOOSE perm \in ShmPerms : TRUE)
    IN  /\ lcall[t].pc = "ctl_wait_aspace" /\ LockFree(AspaceLock(lcall[t].proc))
        /\ ConcApply(r)
        /\ lcall' = [lcall EXCEPT ![t] = ThreadDone(t, r)]
        /\ held' = [held EXCEPT ![t] = {}]
        /\ ret' = Call("shmctl", r.err, r.val)
        /\ ConcFrame

ConcNext ==
    \E t \in ConcThreads :
        \/ ConcShmget(t)
        \/ ConcShmatEnter(t) \/ ConcShmatAttach(t)
        \/ ConcShmdtDetach(t) \/ ConcShmdtRemove(t)
        \/ ConcShmctlEnter(t) \/ ConcShmctlAccess(t)

\* the threads belong to one process, or each to a process of its own
InitConc ==
    /\ segments = EmptyMap /\ key_to_id = EmptyMap /\ next_id = 1
    /\ shmObjs = EmptyMap /\ nextObj = 1 /\ pagesFree = TotalPages
    /\ attached = [p \in ConcProcs |-> EmptyMap]
    /\ aspace = [p \in ConcProcs |-> {}]
    /\ removedIds = {}
    /\ DirOpened(<<>>) /\ MpxInit /\ TaskBooted(NoFiles) /\ WaitIdle /\ IoIdle /\ PgIdle
    /\ \E same \in BOOLEAN :
           lcall = [t \in ConcThreads |->
                        ThreadIdle(IF same \/ t > NConcProcs THEN 1 ELSE t)]
    /\ held = [t \in ConcThreads |-> {}]
    /\ ret = NoCall

SpecConc == InitConc /\ [][ConcNext]_vars

(***************************************************************************)
(* The caller of SpecWatch keeps calling epoll_wait with a buffer shorter  *)
(* than the number of ready fds: whenever such a call can change what the  *)
(* caller has seen, it is eventually made.                                 *)
(***************************************************************************)
\* the watched fds for which poll_all writes an event when it has room
ReadyFds ==
    {fd \in DOMAIN interest[TheEpfd] :
         poll_all(fdKind, fdPoll, interest,
                  [k \in {fd} |-> interest[TheEpfd][fd]], 1) # <<>>}

WatchWaitShort ==
    \E maxevents \in WatchMaxEvents :
        /\ 0 < maxevents /\ maxevents < Cardinality(ReadyFds)
        /\ MpxApply("epoll_wait", sys_epoll_wait(TheEpfd, TRUE, maxevents, 0))
        /\ UNCHANGED <<lastSet, delSet>>

SpecWatchFair == SpecWatch /\ WF_vars(WatchWaitShort)

(***************************************************************************)
(* Properties of the shared-memory calls.                                  *)
(***************************************************************************)
SegOf(id) == shmObjs[segments[id]]
\* a registry segment that is marked for deletion and still attached
MarkedAttached(id) == id \in DOMAIN segments /\ SegOf(id).marked /\ SegOf(id).nattch > 0
\* an outcome that leaves the shared-memory state as it is
ShmUnchanged(r) == [r EXCEPT !.err = "OK", !.val = 0] = ShmState
CeilPages(size) == (size + PAGE_SIZE_4K - 1) \div PAGE_SIZE_4K

\* C2 (state part): no segment of the registry is marked for deletion with
\* attach count 0, and every shmat and shmctl on a removed id fails.
C2_NoMarkedIdle ==
    /\ \A id \in DOMAIN segments : ~(SegOf(id).marked /\ SegOf(id).nattch = 0)
    /\ \A id \in removedIds :
          /\ \A p \in Procs, addr \in ShmAddrs, flg \in ShmAtFlags :
                 sys_shmat(p, id, addr, flg).err # "OK"
          /\ \A cb \in ShmCtlArgs, perm \in ShmPerms :
                 sys_shmctl(id, cb[1], cb[2], perm).err # "OK"

\* C2 (step part): a segment leaves the registry only in a shmctl that finds
\* its attach count 0 (and marks it), or in the shmdt that takes the attach
\* count of a marked segment from 1 to 0.
C2_RemovedWhenDue ==
    \A id \in DOMAIN segments :
        id \notin DOMAIN segments' =>
            \/ ret'.op = "shmctl" /\ SegOf(id).nattch = 0
            \/ ret'.op = "shmdt" /\ SegOf(id).marked /\ SegOf(id).nattch = 1

\* C2: Shm deferred delete: a segment leaves the registry exactly at the first
\* moment at which it is marked for deletion and its attach count is 0, never
\* while unmarked or attached, and afterwards shmat and shmctl on its id fail.
C2_DeferredDelete == [](C2_NoMarkedIdle) /\ [][C2_RemovedWhenDue]_vars

\* the removal at a shmdt has happened: the only segment ever created was
\* attached until the last call, a successful shmdt, and is now removed
C2_Witness ==
    /\ ret.op = "shmdt" /\ ret.err = "OK"
    /\ nextObj = 2 /\ removedIds # {}

\* C3 as claimed: on a segment marked for deletion and still attached, every
\* shmat returns EIDRM, whatever the address hint and the flags.
C3_AlwaysEidrm ==
    \A id \in DOMAIN segments : MarkedAttached(id) =>
        \A p \in Procs, addr \in ShmAddrs, flg \in ShmAtFlags :
            sys_shmat(p, id, addr, flg).err = "EIDRM"

\* C3 (amended): on a segment marked for deletion and still attached, a shmat
\* whose address hint passes the alignment check (null, 4 KiB aligned, or
\* SHM_RND set) returns EIDRM, one whose hint does not returns EINVAL, and in
\* both cases the attach counts and every attachment table stay as they are.
C3_EidrmAfterRmid ==
    \A id \in DOMAIN segments : MarkedAttached(id) =>
        \A p \in Procs, addr \in ShmAddrs, flg \in ShmAtFlags :
            LET r == sys_shmat(p, id, addr, flg)
            IN  /\ r.err = IF addr # 0 /\ addr % PAGE_SIZE_4K # 0 /\ ~HasBit(flg, SHM_RND)
                           THEN "EINVAL" ELSE "EIDRM"
                /\ ShmUnchanged(r)

\* a shmat has just returned EIDRM on a marked, attached segment
C3_Witness ==
    /\ ret.op = "shmat" /\ ret.err = "EIDRM"
    /\ \E id \in DOMAIN segments : MarkedAttached(id)

\* C4 as claimed: while a keyed segment is marked for deletion and attached,
\* every shmget with its key returns ENOENT, whatever the flags.
C4_AlwaysEnoent ==
    \A id \in DOMAIN segments : (MarkedAttached(id) /\ SegOf(id).key # IPC_PRIVATE) =>
        \A flags \in ShmGetFlags, allocOk \in BOOLEAN :
            sys_shmget(SegOf(id).key, PAGE_SIZE_4K, flags, allocOk).err = "ENOENT"

\* C4 (amended): while a keyed segment is marked for deletion and attached, a
\* shmget with its key and a size that passes the size check returns EEXIST
\* when IPC_EXCL is set and ENOENT otherwise (EINVAL for a size of 0 or above
\* 1 GiB), and no segment is created for that key.
C4_KeyHiddenAfterRmid ==
    \A id \in DOMAIN segments : (MarkedAttached(id) /\ SegOf(id).key # IPC_PRIVATE) =>
        \A size \in ShmSizes, flags \in ShmGetFlags, allocOk \in BOOLEAN :
            LET r == sys_shmget(SegOf(id).key, size, flags, allocOk)
            IN  /\ r.err = IF size = 0 \/ size > MAX_SHM_SIZE THEN "EINVAL"
                           ELSE IF HasBit(flags, IPC_EXCL) THEN "EEXIST"
                           ELSE "ENOENT"
                /\ ShmUnchanged(r)

\* a shmget has just returned ENOENT for the key of a marked, attached segment
C4_Witness ==
    /\ ret.op = "shmget" /\ ret.err = "ENOENT"
    /\ \E id \in DOMAIN segments : MarkedAttached(id) /\ SegOf(id).key # IPC_PRIVATE

RECURSIVE SumCeilPages(_)
SumCeilPages(ids) ==
    IF ids = {} THEN 0
    ELSE LET i == CHOOSE x \in ids : TRUE
         IN  CeilPages(SegOf(i).segsz) + SumCeilPages(ids \ {i})

\* C5: Shm conservation: the pages held by the shm subsystem are the pages of
\* the registry's segments, ceil(size/4096) each; the objects alive are those
\* of the registry (an attachment never outlives the registry entry), so the
\* pages of a segment are given back once, when its last reference goes.
C5_Conservation ==
    /\ TotalPages - pagesFree = SumCeilPages(DOMAIN segments)
    /\ DOMAIN shmObjs = {segments[id] : id \in DOMAIN segments}
    /\ \A p \in Procs : \A a \in DOMAIN attached[p] : attached[p][a].id \in DOMAIN segments

\* a segment has been removed and its pages given back while another segment
\* or a later one holds pages
C5_Witness ==
    /\ removedIds # {}
    /\ pagesFree = TotalPages
    /\ ret.op \in {"shmdt", "shmctl"} /\ ret.err = "OK"

(***************************************************************************)
(* Properties of getdents64.                                               *)
(***************************************************************************)
\* the entries not yet delivered, in the state d: the carry, then the rest
Pending(es, d) ==
    (IF d.carry.some THEN <<d.carry.ent>> ELSE <<>>) \o SubSeq(es, d.pos + 1, Len(es))
\* the name a reader finds in a record: the bytes of d_name before the NUL
NameOf(rec) ==
    LET nul == CHOOSE i \in 1..Len(rec.d_name) :
                   rec.d_name[i] = 0 /\ \A j \in 1..(i - 1) : rec.d_name[j] # 0
    IN  SubSeq(rec.d_name, 1, nul - 1)
NamesOfRecs(recs) == [i \in 1..Len(recs) |-> NameOf(recs[i])]
NamesOfEntries(es) == [i \in 1..Len(es) |-> es[i].name]
RECURSIVE SumReclen(_)
SumReclen(recs) == IF recs = <<>> THEN 0 ELSE Head(recs).d_reclen + SumReclen(Tail(recs))

\* C6 (state part): the records emitted so far, then the carry, then what the
\* iterator has not handed out, are the directory's entries in order; every
\* record has the type and the padded length of its entry; a call that
\* returns n > 0 has written n bytes of records, the last ones emitted; a
\* call returns 0 only once every entry has been emitted.
C6_EmittedIsPrefix ==
    /\ NamesOfRecs(emitted) \o NamesOfEntries(Pending(dirEntries, DirState))
           = NamesOfEntries(dirEntries)
    /\ \A i \in 1..Len(emitted) :
           /\ emitted[i].d_type = FileTypeFrom(dirEntries[i].ty)
           /\ emitted[i].d_reclen % DIRENT_ALIGN = 0
           /\ emitted[i].d_reclen >= NAME_OFFSET + Len(dirEntries[i].name) + 1
           /\ emitted[i].d_reclen < NAME_OFFSET + Len(dirEntries[i].name) + 1 + DIRENT_ALIGN
    /\ (ret.op = "getdents64" /\ ret.err = "OK" /\ ret.val > 0) =>
           /\ SumReclen(userBuf) = ret.val
           /\ SubSeq(emitted, Len(emitted) - Len(userBuf) + 1, Len(emitted)) = userBuf
    /\ (ret.op = "getdents64" /\ ret.err = "OK" /\ ret.val = 0) =>
           NamesOfRecs(emitted) = NamesOfEntries(dirEntries)

\* C6 (step part): a call that finds the carry occupied either fails and
\* leaves the carry as it is, or emits the carried entry as its first record.
C6_CarryFirst ==
    last_dirent.some =>
        IF ret'.err = "OK"
        THEN ret'.val > 0 /\ NameOf(userBuf'[1]) = last_dirent.ent.name
        ELSE last_dirent' = last_dirent /\ emitted' = emitted

C7_TooSmallIsEinval ==
    \A len \in BufSizes :
        LET r == sys_getdents64(dirEntries, DirState, TRUE, TRUE, len)
            after == [pos |-> r.pos, carry |-> r.carry, buf |-> r.buf]
            next == Pending(dirEntries, DirState)
            Obs(x) == <<x.err, x.val, x.buf, Pending(dirEntries, x)>>
        IN  /\ (next # <<>> /\ RecLen(next[1].name) > len) =>
                   /\ r.err = "EINVAL"
                   /\ r.buf = userBuf
                   /\ Pending(dirEntries, after) = next
                   /\ \A len2 \in BufSizes :
                          Obs(sys_getdents64(dirEntries, after, TRUE, TRUE, len2))
                              = Obs(sys_getdents64(dirEntries, DirState, TRUE, TRUE, len2))
            /\ (r.err = "OK" /\ r.val = 0) =>
                   dirPos = Len(dirEntries) /\ ~last_dirent.some

\* a call has failed with EINVAL on an entry read from the iterator, which
\* is now in the carry, after an earlier call delivered an entry
C7_Witness ==
    /\ ret.op = "getdents64" /\ ret.err = "EINVAL"
    /\ last_dirent.some /\ emitted # <<>>
    /\ Len(emitted) + 1 = dirPos

(***************************************************************************)
(* Properties of epoll.                                                    *)
(***************************************************************************)
EpollFds == {fd \in Fds : fdKind[fd] = "epoll"}
\* epoll_ctl(epfd, op, fd, &e) with a readable event
CtlErr(epfd, op, fd, e) == sys_epoll_ctl(epfd, op, fd, [ptr |-> "ok", ev |-> e]).err
\* every failing epoll_ctl leaves every interest map as it is
FailedCtlChangesNothing ==
    \A epfd \in FdArgs, op \in EpollOps, fd \in FdArgs, event \in EpollEventArgs :
        LET r == sys_epoll_ctl(epfd, op, fd, event)
        IN  r.err # "OK" => r.interest = interest

\* C8 as claimed: once ADD of fd has succeeded and until a DEL of fd succeeds,
\* every ADD of fd returns EEXIST; once DEL of fd has succeeded and until the
\* next successful ADD, MOD and DEL return ENOENT and ADD succeeds; a failed
\* epoll_ctl leaves the interest map unchanged.
C8_Exclusive ==
    /\ \A epfd \in EpollFds, e \in EpollEvents :
           /\ \A fd \in DOMAIN lastSet[epfd] : CtlErr(epfd, EPOLL_CTL_ADD, fd, e) = "EEXIST"
           /\ \A fd \in delSet[epfd] :
                  /\ CtlErr(epfd, EPOLL_CTL_MOD, fd, e) = "ENOENT"
                  /\ CtlErr(epfd, EPOLL_CTL_DEL, fd, e) = "ENOENT"
                  /\ CtlErr(epfd, EPOLL_CTL_ADD, fd, e) = "OK"
    /\ FailedCtlChangesNothing

\* C8 (amended): the same while fd is open; when fd has been closed, ADD, MOD
\* and DEL of fd all return EBADF, whether or not fd is in the interest map;
\* a failed epoll_ctl leaves the interest map unchanged.
C8_ExclusiveWhileOpen ==
    /\ \A epfd \in EpollFds, e \in EpollEvents :
           /\ \A fd \in DOMAIN lastSet[epfd] :
                  CtlErr(epfd, EPOLL_CTL_ADD, fd, e)
                      = IF fdKind[fd] # "none" THEN "EEXIST" ELSE "EBADF"
           /\ \A fd \in delSet[epfd] :
                  IF fdKind[fd] # "none"
                  THEN /\ CtlErr(epfd, EPOLL_CTL_MOD, fd, e) = "ENOENT"
                       /\ CtlErr(epfd, EPOLL_CTL_DEL, fd, e) = "ENOENT"
                       /\ CtlErr(epfd, EPOLL_CTL_ADD, fd, e) = "OK"
                  ELSE \A op \in {EPOLL_CTL_ADD, EPOLL_CTL_MOD, EPOLL_CTL_DEL} :
                           CtlErr(epfd, op, fd, e) = "EBADF"
    /\ FailedCtlChangesNothing

\* a second ADD has just returned EEXIST
C8_Witness ==
    /\ ret.op = "epoll_ctl" /\ ret.err = "EEXIST"
    /\ \E epfd \in EpollFds : lastSet[epfd] # EmptyMap

\* C9: for every epoll instance, the interest map is the map fd -> event of
\* the latest successful ADD or MOD of each fd not deleted since (one entry
\* per fd); poll() of the instance reports readable exactly when that map is
\* not empty and never writable; a freshly created instance is not readable.
C9_InstanceInvariant ==
    /\ \A epfd \in EpollFds :
           /\ interest[epfd] = lastSet[epfd]
           /\ FilePoll(fdKind, fdPoll, interest, epfd).err = "OK"
           /\ FilePoll(fdKind, fdPoll, interest, epfd).readable
                  = (Cardinality(DOMAIN lastSet[epfd]) > 0)
           /\ ~FilePoll(fdKind, fdPoll, interest, epfd).writable
    /\ (ret.op = "epoll_create" /\ ret.err = "OK") =>
           /\ ret.val \in EpollFds
           /\ ~FilePoll(fdKind, fdPoll, interest, ret.val).readable

\* an fd is watched with the second event, and the instance is readable
C9_Witness ==
    /\ ret.op = "epoll_ctl" /\ ret.err = "OK"
    /\ \E epfd \in EpollFds : \E fd \in DOMAIN interest[epfd] :
           /\ interest[epfd][fd].data = 2
           /\ FilePoll(fdKind, fdPoll, interest, epfd).readable

(***************************************************************************)
(* Properties of poll and ppoll.                                           *)
(***************************************************************************)
\* the revents the claim gives an entry, from the state of the fd table
ExpectedRevents(e) ==
    IF e.fd < 0 THEN 0
    ELSE IF e.fd \notin Fds \/ fdKind[e.fd] = "none" THEN POLLNVAL
    ELSE LET st == FilePoll(fdKind, fdPoll, interest, e.fd)
         IN  IF st.err # "OK" THEN POLLERR
             ELSE (IF st.readable /\ HasBit(e.events, POLLIN) THEN POLLIN ELSE 0)
                  + (IF st.writable /\ HasBit(e.events, POLLOUT) THEN POLLOUT ELSE 0)

\* C10: after a poll or ppoll that returned a count for a non-empty array,
\* every entry's revents is 0 for a negative fd, POLLNVAL for an fd that is
\* not open, POLLERR when the file's poll fails, and otherwise POLLIN and
\* POLLOUT as requested and ready, whatever revents held before; the value
\* returned is the number of entries with nonzero revents.
C10_SamplingPass ==
    (ret.op \in {"poll", "ppoll"} /\ ret.err = "OK" /\ Len(pollfds) > 0) =>
        /\ \A i \in 1..Len(pollfds) : pollfds[i].revents = ExpectedRevents(pollfds[i])
        /\ ret.val = Cardinality({i \in 1..Len(pollfds) : pollfds[i].revents # 0})

\* a ppoll has returned 1 for an array of a negative fd, whose stale revents
\* it cleared, and a readable fd
C10_Witness ==
    /\ ret.op = "ppoll" /\ ret.err = "OK" /\ ret.val = 1
    /\ Len(pollfds) = 2
    /\ pollfds[1].fd < 0 /\ pollfds[1].revents = 0
    /\ pollfds[2].revents = POLLIN

(***************************************************************************)
(* Properties of execve.                                                   *)
(***************************************************************************)
\* C1: Execve atomicity: every execve call that returns an error leaves the
\* caller's address-space mappings, task name, recorded exe path and saved
\* trap frame as they were before the call.
C1_ExecveAtomicity ==
    [][(ret'.op = "execve" /\ ret'.err # "OK")
          => UNCHANGED <<user_areas, taskName, exe_path, tf>>]_vars

\* an execve of a script, the only file there is, has returned ENOENT and
\* left the caller with nothing mapped but the signal trampoline
C1_Witness ==
    /\ ret.op = "execve" /\ ret.err = "ENOENT"
    /\ user_areas = {Trampoline}
    /\ exe_path = InitPath
    /\ files[<<"bin", "s">>].kind = "script"
    /\ files[ShPath] = NoFile /\ files[LibcPath] = NoFile

(***************************************************************************)
(* Properties of select and pselect6.                                      *)
(***************************************************************************)
\* poll() of fd succeeded
SelPollOk(fd) ==
    /\ get_file_like(fdKind, fd) = "OK"
    /\ FilePoll(fdKind, fdPoll, interest, fd).err = "OK"
SelBelow(nfds) == 0..(Min(nfds, FD_SETSIZE) - 1)
\* the output sets and the result the claim gives a call on the caller's sets
SelectExpected(nfds, p) ==
    LET in == [r |-> IF p.r = "null" THEN {} ELSE selsets.r \cap SelBelow(nfds),
               w |-> IF p.w = "null" THEN {} ELSE selsets.w \cap SelBelow(nfds),
               e |-> IF p.e = "null" THEN {} ELSE selsets.e \cap SelBelow(nfds)]
    IN  [r |-> {fd \in in.r : SelPollOk(fd) /\ FilePoll(fdKind, fdPoll, interest, fd).readable},
         w |-> {fd \in in.w : SelPollOk(fd) /\ FilePoll(fdKind, fdPoll, interest, fd).writable},
         e |-> {fd \in in.e : ~SelPollOk(fd)}]

WaitReturns == WaitCalling /\ wcall'.pc = "done"

\* C12: Timeout floor: while a call is in its wait loop its deadline is the
\* one computed at entry, entry time + T (none for an infinite timeout); a
\* call with a finite timeout T >= 0 returns 0 only when the clock has
\* reached entry time + T (for poll with nfds == 0, after the sleep of T),
\* and only after a sampling pass that found nothing ready, unless nfds == 0.
C12_TimeoutFloor ==
    /\ [](wcall.pc \in {"loop", "check", "sleep"}
             => wcall.deadline = DeadlineAt(wcall.entry, wcall.T))
    /\ [][(WaitReturns /\ ret'.val = 0 /\ wcall.T >= 0)
             => /\ now >= wcall.entry + wcall.T
                /\ wcall.pc = "check" \/ wcall.nfds = 0]_vars

\* a poll with nfds == 0 and a positive timeout has returned 0 when the clock
\* has reached the timeout
C12_Witness ==
    /\ wcall.pc = "done" /\ wcall.kind = "poll" /\ wcall.nfds = 0
    /\ wcall.T = MaxTimeout /\ ret.val = 0 /\ now = MaxTimeout

\* C13: Infinite timeout: a poll with a negative timeout, a ppoll, select or
\* pselect6 with a NULL timeout and an epoll_wait with a negative timeout
\* never return 0, whatever nfds is.
C13_InfiniteNeverZero ==
    (wcall.pc = "done" /\ wcall.T < 0 /\ ret.err = "OK") => ret.val > 0

\* a poll with nfds == 0 and a negative timeout has returned 0
C13_Witness ==
    /\ wcall.pc = "done" /\ wcall.kind = "poll" /\ wcall.nfds = 0
    /\ wcall.T < 0 /\ ret = Call("poll", "OK", 0)

\* C14: Bounded wait: with the clock advancing and the task scheduled, every
\* call with a finite timeout eventually returns, whatever the fd table and
\* the interest map are.
C14_BoundedWait == (WaitCalling /\ wcall.T >= 0) ~> (wcall.pc = "done")

\* an epoll_wait with a finite timeout spins on the lock of its own instance
C14_Witness ==
    /\ wcall.pc = "spin" /\ wcall.kind = "epoll_wait" /\ wcall.T >= 0
    /\ wcall.epfd \in DOMAIN interest[wcall.epfd]

(***************************************************************************)
(* Properties of copy_file_range and splice.                               *)
(***************************************************************************)
IsFile(fd) == ioFds[fd].kind = "file"
IsPipe(fd) == ioFds[fd].kind = "pipe"
Max(a, b) == IF a > b THEN a ELSE b

\* what the copy of len bytes with null offsets from the File object src to
\* the File object dst is to do, r being the outcome of the call
CopiedInOrder(r, src, dst, len) ==
    LET from == openFiles[src]
        to == openFiles[dst]
        n == Min(len, Max(0, Len(inodes[from.ino]) - from.pos))
        bytes == SubSeq(inodes[from.ino], from.pos + 1, from.pos + n)
    IN  /\ r.err = "OK" /\ r.val = n
        /\ r.s.inodes[to.ino] = WriteAtData(inodes[to.ino], to.pos, bytes)
        /\ r.s.openFiles[src].pos = from.pos + n
        /\ r.s.openFiles[dst].pos = to.pos + n

\* C15: copy_file_range with both offset pointers null: with fd_in == fd_out
\* it returns EINVAL and transfers nothing; between two distinct fds of
\* regular files it returns min(len, bytes remaining in the source from its
\* position), writes exactly those bytes in order at the destination's
\* position, and advances both positions by the returned amount.
C15_CopyNullOffsets ==
    IoPreparing =>
        \A fd_in \in DOMAIN ioFds, fd_out \in DOMAIN ioFds, len \in IoLens :
            LET r == sys_copy_file_range(IoState, ioFds, fd_in, "null", fd_out, "null", len)
            IN  /\ fd_in = fd_out => r.err = "EINVAL" /\ r.s = IoState
                /\ (fd_in # fd_out /\ IsFile(fd_in) /\ IsFile(fd_out))
                       => CopiedInOrder(r, ioFds[fd_in].obj, ioFds[fd_out].obj, len)

\* a copy between two fds that hold the same File object has returned n > 1
\* and left the position of the object 2n bytes further
C15_Witness ==
    /\ ret.op = "copy_file_range" /\ ret.err = "OK" /\ ret.val > 1
    /\ openFiles[1].pos = 2 * ret.val

\* the arguments of a splice pass the validation the specification asks for
SpliceArgsValid(fd_in, off_in, fd_out, off_out) ==
    \/ /\ IsPipe(fd_in) /\ ~IsPipe(fd_out)
       /\ off_in = "null" /\ off_out \in IoCells /\ uoff[off_out] >= 0
    \/ /\ ~IsPipe(fd_in) /\ IsPipe(fd_out)
       /\ off_out = "null" /\ off_in \in IoCells /\ uoff[off_in] >= 0

\* the input end is a pipe that is not readable, or the output end is a pipe
\* that is not writable
WrongDirection(fd_in, fd_out) ==
    \/ IsPipe(fd_in) /\ ~ioFds[fd_in].readable
    \/ IsPipe(fd_out) /\ ioFds[fd_out].readable

\* C16: splice argument validation, for readable offset pointers and pipe ends
\* of the right direction: splice succeeds only if exactly one of
\* fd_in/fd_out is a pipe, the offset pointer on the pipe side is null and
\* the one on the file side is non-null with a non-negative value; every
\* other combination returns EINVAL and moves no data.
C16_SpliceValidation ==
    IoPreparing =>
        \A fd_in \in DOMAIN ioFds, fd_out \in DOMAIN ioFds,
           off_in \in IoPtrsIn \ {"bad"}, off_out \in IoPtrsOut \ {"bad"}, len \in IoLens :
            LET r == sys_splice(IoState, ioFds, fd_in, off_in, fd_out, off_out, len)
                valid == SpliceArgsValid(fd_in, off_in, fd_out, off_out)
            IN  ~WrongDirection(fd_in, fd_out)
                    => /\ r.err = "OK" => valid
                       /\ ~valid => r.err = "EINVAL" /\ r.s = IoState

\* a splice from the pipe with a non-null off_in has moved the two bytes of
\* the pipe into a file
C16_Witness ==
    /\ ret = Call("splice", "OK", 2)
    /\ pipeBuf = <<>> /\ uoff["a"] >= 0
    /\ inodes[2] = <<7, 8>>

\* C17: splice direction check as first stated: when the input endpoint is a
\* pipe that is not readable, or the output endpoint is a pipe that is not
\* writable, splice fails with EPERM and neither consumes pipe data nor
\* writes to the file nor changes the offset value.
C17_DirectionCheck ==
    IoPreparing =>
        \A fd_in \in DOMAIN ioFds, fd_out \in DOMAIN ioFds,
           off_in \in IoPtrsIn, off_out \in IoPtrsOut, len \in IoLens :
            LET r == sys_splice(IoState, ioFds, fd_in, off_in, fd_out, off_out, len)
            IN  WrongDirection(fd_in, fd_out) => r.err = "EPERM" /\ r.s = IoState

\* C17, amended: when the input endpoint is a pipe that is not readable, or
\* the output endpoint is a pipe that is not writable, splice fails and
\* neither consumes pipe data nor writes to the file nor changes the offset
\* value; the error is EPERM exactly when the other endpoint is not a pipe
\* and every non-null offset pointer is readable with a non-negative value,
\* and EINVAL or EFAULT otherwise.
C17_DirectionCheckAmended ==
    IoPreparing =>
        \A fd_in \in DOMAIN ioFds, fd_out \in DOMAIN ioFds,
           off_in \in IoPtrsIn, off_out \in IoPtrsOut, len \in IoLens :
            LET r == sys_splice(IoState, ioFds, fd_in, off_in, fd_out, off_out, len)
                offsets_ok == /\ validate_offset(IoState, off_in) = "OK"
                              /\ validate_offset(IoState, off_out) = "OK"
            IN  WrongDirection(fd_in, fd_out)
                    => /\ r.s = IoState
                       /\ r.err \in {"EPERM", "EINVAL", "EFAULT"}
                       /\ r.err = "EPERM"
                              <=> (~(IsPipe(fd_in) /\ IsPipe(fd_out)) /\ offsets_ok)

\* a splice has failed with EPERM and the bytes are still in the pipe
C17_Witness ==
    /\ ret = Call("splice", "EPERM", 0 - 1)
    /\ pipeBuf = <<7, 8>>

\* the whole of what the four parts of C1 speak of is as before the call
ExecUntouched(r) ==
    /\ r.user_areas = user_areas /\ r.taskName = taskName
    /\ r.exe_path = exe_path /\ r.tf = tf

C20_EarlyFailuresKeepSpace ==
    \A path \in PathArgs, envp \in EnvpArgs, budget \in 0..(MaxSegs + 2) :
        \A argv \in ArgvArgs(path.str) :
            LET r == sys_execve(path, argv, envp, budget)
                unreadable == ~path.ok \/ ~argv.ok \/ ~envp.ok
                file_data == read(files, path.str)
                no_exec == file_data.kind \notin {"absent", "script", "elf"}
            IN  /\ (unreadable \/ nthreads > 1 \/ file_data.kind = "absent" \/ no_exec)
                       => r.err # "OK" /\ r.user_areas = user_areas
                /\ (~unreadable /\ nthreads = 1 /\ no_exec) => r.err = "ENOEXEC"

\* an execve of a file that is neither a script nor an ELF image has returned
\* ENOEXEC with the areas of the boot image still mapped
C20_Witness ==
    /\ ret.op = "execve" /\ ret.err = "ENOEXEC"
    /\ {LoadArea(InitPath, 1), StackArea, HeapArea} \subseteq user_areas

(***************************************************************************)
(* Properties of the "#!" branch of the loader.                            *)
(***************************************************************************)
\* the script the shebang specification runs on, and its first line
TheScript == files[CHOOSE p \in ExecPaths : TRUE].data
FirstLine == ShebangLine(ShebangHead(TheScript))
HasWhitespace(w) == \E i \in 1..Len(w) : is_ascii_whitespace(w[i])

\* t is w without its leading and trailing ASCII whitespace
IsTrimOf(t, w) ==
    /\ t = <<>> \/ (~is_ascii_whitespace(t[1]) /\ ~is_ascii_whitespace(t[Len(t)]))
    /\ \E a \in 0..Len(w) :
           /\ a + Len(t) <= Len(w)
           /\ SubSeq(w, a + 1, a + Len(t)) = t
           /\ \A i \in (1..a) \cup ((a + Len(t) + 1)..Len(w)) : is_ascii_whitespace(w[i])

\* new_args is [interp] ++ [optional_arg, when there is one] ++ args, where the
\* line is interp, or interp, one whitespace character and optional_arg, the
\* two taken as they stand or trimmed
SplitOnce(line, new_args, args) ==
    \/ ~HasWhitespace(line) /\ new_args = <<line>> \o args
    \/ /\ Len(new_args) = Len(args) + 2
       /\ SubSeq(new_args, 3, Len(new_args)) = args
       /\ \E i \in 1..Len(line) :
              /\ is_ascii_whitespace(line[i])
              /\ ~HasWhitespace(SubSeq(line, 1, i - 1))
              /\ new_args[1] = SubSeq(line, 1, i - 1)
              /\ \/ new_args[2] = SubSeq(line, i + 1, Len(line))
                 \/ IsTrimOf(new_args[2], SubSeq(line, i + 1, Len(line)))

\* C19: Shebang redirection as first stated: when the target file begins with
\* "#!", the loader re-enters with path = interp and argv = [interp] ++
\* [optional_arg, only when the line has one] ++ the caller's argv, interp
\* and optional_arg being the first line (up to the first newline or byte
\* 256 of the file) split once on ASCII whitespace.
C19_ShebangRedirection ==
    \A args \in ShebangArgvs :
        LET r == ShebangRedirect(TheScript, args)
        IN  /\ r.err = "OK"
            /\ r.path = r.new_args[1]
            /\ SplitOnce(FirstLine, r.new_args, args)

\* C19, amended: when the target file begins with "#!", the caller's argv is
\* not empty and the first line (up to the first newline or byte 256 of the
\* file) is valid UTF-8, the loader re-enters with path = interp and argv =
\* [interp] ++ [optional_arg, exactly when the line contains an ASCII
\* whitespace character] ++ the caller's argv, interp being the line up to
\* its first ASCII whitespace character and optional_arg the rest after that
\* character with leading and trailing ASCII whitespace removed (it may be
\* empty); with an empty argv or a line that is not valid UTF-8 the loader
\* fails without re-entering.
C19_ShebangRedirectionAmended ==
    \A args \in ShebangArgvs :
        LET r == ShebangRedirect(TheScript, args)
            utf8 == \A i \in 1..Len(FirstLine) : FirstLine[i] # "?"
        IN  IF args = <<>> \/ ~utf8 THEN r.err # "OK"
            ELSE /\ r.err = "OK"
                 /\ r.path = r.new_args[1]
                 /\ SplitOnce(FirstLine, r.new_args, args)
                 /\ HasWhitespace(FirstLine)
                        => \E i \in 1..Len(FirstLine) :
                               /\ is_ascii_whitespace(FirstLine[i])
                               /\ ~HasWhitespace(SubSeq(FirstLine, 1, i - 1))
                               /\ IsTrimOf(r.new_args[2],
                                           SubSeq(FirstLine, i + 1, Len(FirstLine)))

\* the script "#!s x" and a newline, entered with two arguments, is
\* re-entered with the interpreter, its argument and the two arguments
C19_Witness ==
    /\ TheScript = <<"#", "!", "s", " ", "x", "\n">>
    /\ ret = Call("load_user_app", "OK",
                  << <<"s">>, <<"x">>, <<"s">>, <<"a", "r", "g">> >>)

(***************************************************************************)
(* Properties of setpgid.                                                  *)
(***************************************************************************)
\* the outcome leaves the process and group tables as they are
PgUnchanged(r) == r.s = PgState
PgFails(r, e) == r.err = e /\ PgUnchanged(r)
\* the outcome made P a member of group G of session sid, nothing else moved
PgMovedTo(r, P, G, sid) ==
    /\ r.err = "OK" /\ r.val = 0
    /\ r.s.processes = [processes EXCEPT ![P].pgid = G]
    /\ r.s.groups[G] = sid
    /\ \A g \in Pids \ {G} :
          r.s.groups[g] = IF \E q \in Pids \ {P} : Alive(q) /\ processes[q].pgid = g
                          THEN groups[g] ELSE 0

\* C21: with P the target (the caller if pid is 0) and G the target pgid
\* (P's pid if pgid is 0), setpgid applies its rules in this order:
\* (1) G = P.pgid returns 0 and changes nothing, whoever P is; (2) P not the
\* caller and not a child of the caller gives ESRCH; (3) P in another session
\* than the caller gives EPERM; (4) G = P.pid creates a group led by P, EPERM
\* if that fails; (5) otherwise G must exist, be in P's session and accept P,
\* else EPERM.
C21_SetpgidRules ==
    \A caller \in Pids, pid \in PidArgs, pgid \in PidArgs, created \in BOOLEAN,
       accepted \in BOOLEAN :
        LET P == IF pid = 0 THEN caller ELSE pid
            G == IF pgid = 0 THEN P ELSE pgid
            r == sys_setpgid(PgState, caller, pid, pgid, created, accepted)
        IN  (Alive(caller) /\ P \in Pids /\ Alive(P)) =>
            IF G = processes[P].pgid
                THEN r.err = "OK" /\ r.val = 0 /\ PgUnchanged(r)
            ELSE IF P # caller /\ processes[P].parent # caller
                THEN PgFails(r, "ESRCH")
            ELSE IF processes[P].sid # processes[caller].sid
                THEN PgFails(r, "EPERM")
            ELSE IF G = P
                THEN IF created THEN PgMovedTo(r, P, P, processes[P].sid)
                     ELSE PgFails(r, "EPERM")
            ELSE IF G \in Pids /\ groups[G] # 0 /\ groups[G] = processes[P].sid /\ accepted
                THEN PgMovedTo(r, P, G, processes[P].sid)
            ELSE PgFails(r, "EPERM")

\* C21 witness: setpgid returned 0 and some process leads a group of its own
\* in a session it does not lead (rule 4 made the group), while another
\* process is a member of a group led by neither itself nor its parent's
\* group (rule 5 moved it)
C21_Witness ==
    /\ ret = Call("setpgid", "OK", 0)
    /\ \E p \in Pids : Alive(p) /\ processes[p].pgid = p /\ processes[p].sid # p
    /\ \E p \in Pids, q \in Pids :
          /\ p # q /\ Alive(p) /\ Alive(q)
          /\ processes[p].parent = 1 /\ processes[q].parent = 1
          /\ processes[p].pgid = q /\ processes[q].pgid = q

(***************************************************************************)
(* Properties of shmget, shmat and the attach count.                       *)
(***************************************************************************)
\* the id allocator and the page allocator both have what a creation needs
CanCreate(allocOk) == alloc_id(DOMAIN segments, next_id)[1] /\ allocOk
\* the outcome added one segment for (key, size) under an id that was free,
\* and left the segments that were there as they were
ShmCreated(r, key, size) ==
    /\ r.err = "OK"
    /\ r.val \in 1..I32_MAX /\ r.val \notin DOMAIN segments
    /\ DOMAIN r.segments = DOMAIN segments \cup {r.val}
    /\ \A id \in DOMAIN segments :
          r.segments[id] = segments[id] /\ r.shmObjs[segments[id]] = SegOf(id)
    /\ LET seg == r.shmObjs[r.segments[r.val]]
       IN  seg.id = r.val /\ seg.key = key /\ seg.segsz = size
           /\ seg.nattch = 0 /\ ~seg.marked
\* the outcome left the segments and the key index as they were
RegistryUnchanged(r) ==
    r.segments = segments /\ r.key_to_id = key_to_id /\ r.shmObjs = shmObjs

\* C22: the decision table of shmget.  A size above 1 GiB, or a size of 0 with
\* a key other than IPC_PRIVATE, gives EINVAL and changes nothing.  Otherwise
\* IPC_PRIVATE creates a segment under a fresh id and adds no key index entry;
\* an indexed key gives EEXIST with IPC_EXCL, else ENOENT when its segment is
\* marked for deletion, else the existing id with no segment created; a key
\* that is not indexed is created and indexed with IPC_CREAT, else ENOENT.
\* (A creation that the id allocator or the page allocator refuses gives
\* ENOMEM and leaves the registry as it was.)
C22_ShmgetTable ==
    \A key \in ShmKeys, size \in ShmSizes, flags \in ShmGetFlags, allocOk \in BOOLEAN :
        LET r == sys_shmget(key, size, flags, allocOk)
        IN  IF size > MAX_SHM_SIZE \/ (size = 0 /\ key # IPC_PRIVATE)
                THEN r.err = "EINVAL" /\ ShmUnchanged(r)
            ELSE IF key = IPC_PRIVATE
                THEN IF CanCreate(allocOk)
                     THEN ShmCreated(r, key, size) /\ r.key_to_id = key_to_id
                     ELSE r.err = "ENOMEM" /\ RegistryUnchanged(r)
            ELSE IF key \in DOMAIN key_to_id
                THEN /\ ShmUnchanged(r)
                     /\ key_to_id[key] \in DOMAIN segments
                     /\ IF HasBit(flags, IPC_EXCL) THEN r.err = "EEXIST"
                        ELSE IF SegOf(key_to_id[key]).marked THEN r.err = "ENOENT"
                        ELSE r.err = "OK" /\ r.val = key_to_id[key]
            ELSE IF HasBit(flags, IPC_CREAT)
                THEN IF CanCreate(allocOk)
                     THEN ShmCreated(r, key, size)
                          /\ r.key_to_id = MapPut(key_to_id, key, r.val)
                     ELSE r.err = "ENOMEM" /\ RegistryUnchanged(r)
            ELSE r.err = "ENOENT" /\ ShmUnchanged(r)

\* C22 witness: after a keyed segment (id 1) and an IPC_PRIVATE segment (id 2)
\* were created, a shmget has returned the id of the keyed one; the private
\* one is not in the key index
C22_Witness ==
    /\ ret = Call("shmget", "OK", 1)
    /\ DOMAIN segments = {1, 2} /\ nextObj = 3
    /\ SegOf(2).key = IPC_PRIVATE
    /\ DOMAIN key_to_id = {SegOf(1).key} /\ key_to_id[SegOf(1).key] = 1

\* the identity sys_shmat checks permissions for (uid 0, gid 0)
CallerUid == 0
CallerGid == 0
\* the three permission bits of the mode that apply to the caller: the
\* owner's if the caller is the owner, else the group's if the caller is in
\* the group, else the others'
ModeTriple(seg) ==
    IF CallerUid = seg.uid THEN (seg.mode \div 64) % 8
    ELSE IF CallerGid = seg.gid THEN (seg.mode \div 8) % 8
    ELSE seg.mode % 8
Permitted(seg, shmflg) ==
    LET need == IF HasBit(shmflg, SHM_RDONLY) THEN 4 ELSE 6
    IN  BitAnd(ModeTriple(seg), need) = need
Consistent(seg) ==
    /\ seg.nattch <= MAX_NATTCH
    /\ seg.segsz \in 1..MAX_SHM_SIZE /\ seg.size \in 1..MAX_SHM_SIZE
    /\ seg.size >= align_up_4k(seg.segsz)
\* what the validation of an existing segment answers, by the claimed order
ShmatExpected(seg, shmflg) ==
    IF seg.marked THEN "EIDRM"
    ELSE IF ~Consistent(seg) THEN "EINVAL"
    ELSE IF ~Permitted(seg, shmflg) THEN "EACCES"
    ELSE "OK"
\* the uid, gid and mode a shmctl(IPC_SET) may have stored
SetPerms == {[uid |-> u, gid |-> g, mode |-> m] :
                u \in {0, 1}, g \in {0, 1},
                m \in {4, 6, 32, 48, 256, 384}}
Unaligned(shmaddr, shmflg) ==
    ~HasBit(shmflg, SHM_RND) /\ shmaddr # 0 /\ shmaddr % PAGE_SIZE_4K # 0

\* C23: shmat rejects an id below 0 with EINVAL and, unless SHM_RND is set, a
\* non-null address that is not 4 KiB aligned with EINVAL; for an existing
\* segment it then answers, in this order, EIDRM if the segment is marked for
\* deletion, EINVAL if its metadata is inconsistent, EACCES if the permission
\* bits (4 with SHM_RDONLY, 6 without) are not all present in the owner, group
\* or other triple of the mode that applies to the caller, also when the mode
\* was set by a shmctl(IPC_SET); a failed validation changes nothing.
C23_ShmatValidation ==
    /\ \A p \in Procs, id \in ShmIds, addr \in ShmAddrs, flg \in ShmAtFlags :
          LET r == sys_shmat(p, id, addr, flg)
          IN  IF id < 0 \/ Unaligned(addr, flg)
                  THEN r.err = "EINVAL" /\ ShmUnchanged(r)
              ELSE id \in DOMAIN segments =>
                  IF ShmatExpected(SegOf(id), flg) # "OK"
                  THEN r.err = ShmatExpected(SegOf(id), flg) /\ ShmUnchanged(r)
                  ELSE r.err \notin {"EIDRM", "EACCES"}
    /\ \A id \in DOMAIN segments, perm \in SetPerms, flg \in ShmAtFlags :
          validate_segment(set_perm(SegOf(id), perm), flg)
              = ShmatExpected(set_perm(SegOf(id), perm), flg)

\* C23 witness: a shmat has returned EACCES on a segment that is not marked,
\* is consistent, and whose mode a shmctl(IPC_SET) has set
C23_Witness ==
    /\ ret.op = "shmat" /\ ret.err = "EACCES"
    /\ \E id \in DOMAIN segments :
          /\ ~SegOf(id).marked /\ Consistent(SegOf(id))
          /\ SegOf(id).uid # 0 /\ ~Permitted(SegOf(id), 0)

\* shmat(id, addr, flg) by p gets as far as the physical mapping, which fails:
\* the arguments and the segment pass the checks, an address is chosen, and
\* map_linear refuses it
MapStepFails(p, id, addr, flg) ==
    /\ id >= 0 /\ ~Unaligned(addr, flg)
    /\ id \in DOMAIN segments
    /\ ShmatExpected(SegOf(id), flg) = "OK"
    /\ LET ch == ShmatChoose(aspace[p], addr, flg, SegOf(id).size)
       IN  ch[1] = "OK" /\ map_linear(aspace[p], ch[2], SegOf(id).size) # "OK"

\* C24: when the physical mapping step of shmat fails, the attach count of the
\* segment after the call is what it was before, no attachment record is
\* added, and the error of the mapping is returned.
C24_ShmatRollback ==
    \A p \in Procs, id \in ShmIds, addr \in ShmAddrs, flg \in ShmAtFlags :
        MapStepFails(p, id, addr, flg) =>
            LET r == sys_shmat(p, id, addr, flg)
                ch == ShmatChoose(aspace[p], addr, flg, SegOf(id).size)
            IN  /\ r.err = map_linear(aspace[p], ch[2], SegOf(id).size)
                /\ r.shmObjs[segments[id]].nattch = SegOf(id).nattch
                /\ r.attached = attached
                /\ r.aspace = aspace

\* C24 witness: a shmat with SHM_RND at an address that is already mapped has
\* just failed in map_linear, on a segment that is attached once
C24_Witness ==
    /\ ret.op = "shmat" /\ ret.err = "EEXIST"
    /\ \E p \in Procs : \E a \in DOMAIN attached[p] :
          /\ MapStepFails(p, attached[p][a].id, a + 8, SHM_RND)
          /\ SegOf(attached[p][a].id).nattch = 1

\* the attachment records, over all processes, that refer to segment id
AttachRecords(id) ==
    {<<p, a>> \in Procs \X (0..AspaceEnd) :
        a \in DOMAIN attached[p] /\ attached[p][a].obj = segments[id]}

\* C30: between system calls, after any sequence of shmget, shmat, shmdt and
\* shmctl calls, successful or not, the attach count of every segment equals
\* the number of attachment records that refer to it over all processes (so a
\* shmat that returns an error leaves the attach count as it was).
C30_AttachCountInvariant ==
    \A id \in DOMAIN segments : SegOf(id).nattch = Cardinality(AttachRecords(id))

\* C30 witness: a shmat with SHM_RND and a null address has returned EINVAL
\* and left the only segment with attach count 1 and no attachment record
C30_Witness ==
    /\ ret = Call("shmat", "EINVAL", 0 - 1)
    /\ nextObj = 2 /\ DOMAIN segments = {1}
    /\ SegOf(1).nattch = 1 /\ AttachRecords(1) = {}

\* x is one of the ids from nid on, in the cyclic order of the counter, that
\* come before id; and the number of those ids
IsBefore(nid, id, x) == IF nid <= id THEN nid <= x /\ x < id ELSE x >= nid \/ x < id
CountBefore(nid, id) == IF nid <= id THEN id - nid ELSE (I32_MAX - nid) + id
\* every id from next_id on that comes before id is in the registry
SkippedOccupied(id) ==
    Cardinality({x \in DOMAIN segments : IsBefore(next_id, id, x)})
        = CountBefore(next_id, id)
\* registries of i32::MAX / 2 segments, and of one less, with the ids
\* 1..MAX_ATTEMPTS free
HalfFull == (MAX_ATTEMPTS + 1)..(MAX_ATTEMPTS + I32_MAX \div 2)
AlmostHalfFull == (MAX_ATTEMPTS + 1)..(MAX_ATTEMPTS + I32_MAX \div 2 - 1)

\* C27: every id handed out is in 1..i32::MAX and is not the id of a segment
\* of the registry, so no two live segments share an id; ids are handed out in
\* the order of the counter next_id (the first free id from next_id on), which
\* stays at least 1 and wraps from i32::MAX to 1; the allocation fails, adding
\* no segment, when the MAX_ATTEMPTS ids from next_id on are all occupied or
\* the registry holds at least i32::MAX / 2 segments.
C27_IdAllocation ==
    /\ next_id \in 1..I32_MAX
    /\ DOMAIN segments \subseteq 1..I32_MAX
    /\ \A i \in DOMAIN segments : SegOf(i).id = i
    /\ \A a \in ShmGetArgs, allocOk \in BOOLEAN :
          LET r == sys_shmget(a[1], a[2], a[3], allocOk)
              full == ProbeWindow(next_id, MAX_ATTEMPTS) \subseteq DOMAIN segments
          IN  /\ r.next_id \in 1..I32_MAX
              /\ DOMAIN r.segments # DOMAIN segments =>
                    /\ r.err = "OK" /\ r.val \in 1..I32_MAX
                    /\ r.val \notin DOMAIN segments
                    /\ DOMAIN r.segments = DOMAIN segments \cup {r.val}
                    /\ SkippedOccupied(r.val)
                    /\ r.next_id = IF r.val = I32_MAX THEN 1 ELSE r.val + 1
              /\ (full \/ Cardinality(DOMAIN segments) >= I32_MAX \div 2) =>
                    /\ DOMAIN r.segments = DOMAIN segments
                    /\ r.next_id # next_id => r.err = "ENOMEM"
    /\ \A nid \in NextIds :
          /\ alloc_id(HalfFull, nid) = <<FALSE, 0, nid>>
          /\ alloc_id(AlmostHalfFull, nid)[1]
          /\ alloc_id(AlmostHalfFull, nid)[2] \notin AlmostHalfFull

\* C27 witness: with id i32::MAX occupied and next_id = i32::MAX, a shmget has
\* been given id 1 and the counter has wrapped to 2
C27_Witness ==
    /\ ret = Call("shmget", "OK", 1)
    /\ next_id = 2 /\ nextObj = 2
    /\ DOMAIN segments = {1, I32_MAX}

(***************************************************************************)
(* Properties of the locking discipline.                                   *)
(***************************************************************************)
\* the call in progress is at a write to the caller's memory
AtUserWrite == lcall.pc = "uwrite"

\* epoll_wait copies its events out with no lock held
EpollWaitWritesUnlocked == AtUserWrite /\ lcall.call = "epoll_wait" => held = {}
\* getdents64 is at a store into the caller's buffer with both guards alive
GetdentsWritesLocked ==
    AtUserWrite /\ lcall.call = "getdents64" /\ held = {"last_dirent", "inner"}

\* C25: no system call writes to user memory while it holds one of its locks:
\* at the write of shmctl(IPC_STAT) the shm-manager lock is not held, at the
\* writes of getdents64 neither the carry-slot lock nor the iterator lock of
\* the directory, and at the write of epoll_wait not the lock of the interest
\* map.
C25_NoLockAcrossUserWrite == AtUserWrite => held = {}

\* C25 witness: shmctl(IPC_STAT) is at its store through buf, holding the
\* shm-manager lock
C25_Witness ==
    /\ AtUserWrite /\ lcall.call = "shmctl"
    /\ held = {"shm_manager"}

(***************************************************************************)
(* Properties of /proc/self/exe.                                           *)
(***************************************************************************)
RECURSIVE Walk(_, _, _)
\* the path reached from path after following n links in turn
Walk(fs, path, n) ==
    IF n = 0 THEN path
    ELSE LET p == Walk(fs, path, n - 1)
         IN  IF read_link(fs, p).ok THEN LinkedPath(p, read_link(fs, p).target) ELSE p
\* exactly k successive symlinks start at path, and then comes something else
ChainOf(fs, path, k) ==
    /\ \A i \in 0..(k - 1) :
           read_link(fs, Walk(fs, path, i)).ok
           /\ ValidUtf8(read_link(fs, Walk(fs, path, i)).target)
    /\ ~read_link(fs, Walk(fs, path, k)).ok

\* C26: readlink of /proc/self/exe returns the recorded path with its symlinks
\* followed: when at most 8 successive symlinks start at the recorded path, the
\* bytes returned are those of the final target that is no symlink (as many as
\* the buffer holds); and the resolution ends after at most 8 read-link steps,
\* also on a cycle.
C26_SelfExeResolution ==
    /\ resolve_symlink_path(files, exe_path).reads <= MAX_SYMLINK_DEPTH
    /\ \A k \in 0..MAX_SYMLINK_DEPTH :
           ChainOf(files, exe_path, k) =>
               /\ resolve_symlink_path(files, exe_path).path = Walk(files, exe_path, k)
               /\ ret.op = "readlink" =>
                      \E n \in LinkBufLens :
                          ret.val = SubSeq(Walk(files, exe_path, k), 1,
                                           Min(n, Len(Walk(files, exe_path, k))))

\* C26 witness: readlink has returned for a recorded path at which exactly 8
\* successive symlinks start
C26_Witness ==
    /\ ret.op = "readlink"
    /\ ChainOf(files, exe_path, MAX_SYMLINK_DEPTH)

\* chains of fewer than 8 links are resolved to their end
ShorterChainsResolved ==
    \A k \in 0..(MAX_SYMLINK_DEPTH - 1) :
        ChainOf(files, exe_path, k) =>
            resolve_symlink_path(files, exe_path).path = Walk(files, exe_path, k)
\* a chain of exactly 8 links gives the recorded path back
EightLinksGiveRecordedPath ==
    ChainOf(files, exe_path, MAX_SYMLINK_DEPTH) =>
        resolve_symlink_path(files, exe_path).path = exe_path

(***************************************************************************)
(* Properties of epoll_ctl's errors.                                       *)
(***************************************************************************)
\* the error the table gives for op on fd
CtlTableErr(epfd, op, fd) ==
    IF ~(fd \in Fds /\ fdKind[fd] # "none") THEN "EBADF"
    ELSE IF op = EPOLL_CTL_ADD
    THEN IF fd \in DOMAIN interest[epfd] THEN "EEXIST" ELSE "OK"
    ELSE IF op \in {EPOLL_CTL_MOD, EPOLL_CTL_DEL}
    THEN IF fd \notin DOMAIN interest[epfd] THEN "ENOENT" ELSE "OK"
    ELSE "EINVAL"
\* an fd of the interest map of an instance that has been closed since
ClosedButWatched(epfd, fd) ==
    /\ fdKind[epfd] = "epoll" /\ fd \in DOMAIN interest[epfd] /\ fdKind[fd] = "none"

LookupOrPollFails(fd) ==
    get_file_like(fdKind, fd) # "OK" \/ FilePoll(fdKind, fdPoll, interest, fd).err # "OK"
\* the sampling pass comes to fd with room left in a buffer of m events
PassReaches(fd, m) ==
    LET map == interest[TheEpfd]
        before == [k \in {d \in DOMAIN map : d < fd} |-> map[k]]
    IN  Len(poll_all(fdKind, fdPoll, interest, before, m)) < m
\* the events are those of distinct fds of the map, each with the cookie of its fd
FromDistinctFds(written, map) ==
    \E f \in [1..Len(written) -> DOMAIN map] :
        /\ \A i, j \in 1..Len(written) : i # j => f[i] # f[j]
        /\ \A i \in 1..Len(written) :
               /\ written[i].data = map[f[i]].data
               /\ BitAnd(map[f[i]].events, written[i].events) # 0

\* C29: epoll_wait with a writable event array returns n with 0 <= n <=
\* maxevents, n being the number of events written; the events are those of
\* distinct fds of the interest map, each with the cookie registered for its
\* fd; an fd the pass comes to whose lookup or poll fails gets an EPOLLERR
\* event iff EPOLLERR is in its mask; and with one readable file (a pipe's
\* read end with data) subscribed for EPOLLIN, epoll_wait(maxevents = 8,
\* timeout = 100) returns 1 with events = EPOLLIN.
C29_EpollWaitResult ==
    /\ \A m \in WatchMaxEvents \ {0}, t \in WatchTimeouts :
           LET r == sys_epoll_wait(TheEpfd, TRUE, m, t)
               written == IF r.val > 0 THEN r.evbuf ELSE <<>>
               map == interest[TheEpfd]
           IN  /\ r.err = "OK"
               /\ 0 <= r.val /\ r.val <= m /\ Len(written) = r.val
               /\ r.val = 0 => r.evbuf = evbuf
               /\ FromDistinctFds(written, map)
               /\ \A fd \in DOMAIN map :
                      LookupOrPollFails(fd) /\ PassReaches(fd, m) =>
                          ((\E i \in 1..Len(written) :
                                written[i] = [events |-> EPOLLERR, data |-> map[fd].data])
                           <=> BitAnd(map[fd].events, EPOLLERR) # 0)
    /\ \A fd \in WatchedFds :
           /\ DOMAIN interest[TheEpfd] = {fd}
           /\ interest[TheEpfd][fd].events = EPOLLIN
           /\ fdKind[fd] = "file" /\ fdPoll[fd] = PollState(TRUE, FALSE)
           => LET r == sys_epoll_wait(TheEpfd, TRUE, 8, 100)
              IN  r.err = "OK" /\ r.val = 1 /\ Len(r.evbuf) = 1
                  /\ r.evbuf[1].events = EPOLLIN

\* C29 witness: epoll_wait has returned two events, one of them the EPOLLERR
\* of an fd that was closed, while a third fd of the map was ready too
C29_Witness ==
    /\ ret.op = "epoll_wait" /\ ret.val = 2 /\ Len(evbuf) = 2
    /\ \E fd \in DOMAIN interest[TheEpfd] :
           /\ fdKind[fd] = "none"
           /\ \E i \in 1..2 : evbuf[i] = [events |-> EPOLLERR, data |-> Cookie(fd)]
    /\ Len(poll_all(fdKind, fdPoll, interest, interest[TheEpfd], 8)) = 3

(***************************************************************************)
(* Properties of the key index of the registry.                            *)
(***************************************************************************)
\* the key of the registry segment with this id
KeyOfId(id) == shmObjs[segments[id]].key

\* C31: key_to_id never holds IPC_PRIVATE; every entry key -> id names a
\* segment of the registry that has this key; every registry segment with a
\* key other than IPC_PRIVATE is indexed under its key; so no two registry
\* segments share such a key, and a shmget with such a key never returns a
\* segment that was created with IPC_PRIVATE.
C31_IndexConsistency ==
    /\ IPC_PRIVATE \notin DOMAIN key_to_id
    /\ \A k \in DOMAIN key_to_id :
           key_to_id[k] \in DOMAIN segments /\ KeyOfId(key_to_id[k]) = k
    /\ \A id \in DOMAIN segments :
           KeyOfId(id) # IPC_PRIVATE =>
               KeyOfId(id) \in DOMAIN key_to_id /\ key_to_id[KeyOfId(id)] = id
    /\ \A id1, id2 \in DOMAIN segments :
           KeyOfId(id1) = KeyOfId(id2) /\ KeyOfId(id1) # IPC_PRIVATE => id1 = id2
    /\ \A a \in ShmGetArgs :
           \A allocOk \in AllocOutcomes(align_up_4k(a[2]) \div PAGE_SIZE_4K) :
               LET r == sys_shmget(a[1], a[2], a[3], allocOk)
               IN  a[1] # IPC_PRIVATE /\ r.err = "OK" =>
                       r.shmObjs[r.segments[r.val]].key = a[1]

\* C31 witness: shmget has returned a segment with a key while the registry
\* holds a segment created with IPC_PRIVATE
C31_Witness ==
    /\ \E id \in DOMAIN segments : KeyOfId(id) = IPC_PRIVATE
    /\ ret.op = "shmget" /\ ret.err = "OK"
    /\ ret.val \in DOMAIN segments /\ KeyOfId(ret.val) # IPC_PRIVATE

(***************************************************************************)
(* Properties of the event mask of epoll_wait.                             *)
(***************************************************************************)
\* the subscribed edges that the sampled state st satisfies
SatisfiedEdges(mask, st) ==
    (IF st.readable /\ BitAnd(mask, EPOLLIN) # 0 THEN EPOLLIN ELSE 0)
    + (IF st.writable /\ BitAnd(mask, EPOLLOUT) # 0 THEN EPOLLOUT ELSE 0)
\* the file is watched, open, and its poll succeeds
MaskSampled ==
    /\ MaskFile \in DOMAIN interest[MaskEpfd]
    /\ fdKind[MaskFile] = "file" /\ fdPoll[MaskFile].err = "OK"

\* C32: a watched fd contributes at most one event to a sampling pass, and
\* the events field of that event holds every subscribed edge that the state
\* sampled for the fd satisfies: EPOLLIN when it is readable and EPOLLIN is
\* subscribed, EPOLLOUT when it is writable and EPOLLOUT is subscribed, both
\* bits when both hold.
C32_EventMask ==
    \A m \in 1..2 :
        LET r == sys_epoll_wait(MaskEpfd, TRUE, m, 0)
            written == IF r.val > 0 THEN r.evbuf ELSE <<>>
            want == SatisfiedEdges(interest[MaskEpfd][MaskFile].events, fdPoll[MaskFile])
        IN  MaskSampled =>
                /\ Len(written) <= 1
                /\ want # 0 =>
                       /\ Len(written) = 1
                       /\ BitAnd(written[1].events, want) = want

\* C32 witness: epoll_wait has returned one event for the file while it is
\* readable and writable and subscribed for EPOLLIN and EPOLLOUT
C32_Witness ==
    /\ ret.op = "epoll_wait" /\ ret.val = 1
    /\ MaskSampled
    /\ fdPoll[MaskFile] = PollState(TRUE, TRUE)
    /\ SatisfiedEdges(interest[MaskEpfd][MaskFile].events, fdPoll[MaskFile])
           = EPOLLIN + EPOLLOUT

\* one event per pass, with one of the satisfied edges: the first of
\* EPOLLIN and EPOLLOUT
OneEdgeReported ==
    \A m \in 1..2 :
        LET r == sys_epoll_wait(MaskEpfd, TRUE, m, 0)
            written == IF r.val > 0 THEN r.evbuf ELSE <<>>
            want == SatisfiedEdges(interest[MaskEpfd][MaskFile].events, fdPoll[MaskFile])
        IN  MaskSampled =>
                /\ Len(written) <= 1
                /\ want # 0 =>
                       /\ Len(written) = 1
                       /\ written[1].events
                              = (IF BitAnd(want, EPOLLIN) # 0 THEN EPOLLIN ELSE EPOLLOUT)

(***************************************************************************)
(* Properties of the shm calls of several threads.                         *)
(***************************************************************************)
\* the lock thread t needs for its next step
Needs(t) ==
    IF lcall[t].pc = "ctl_wait_aspace" THEN AspaceLock(lcall[t].proc) ELSE ManagerLock
Blocked(t) == ~Returned(t) /\ ~LockFree(Needs(t))
\* a set of threads each of which waits for a lock that another of them holds
Deadlocked ==
    \E W \in SUBSET ConcThreads :
        /\ W # {}
        /\ \A t \in W : Blocked(t) /\ \E u \in W \ {t} : Needs(t) \in held[u]
\* the one order of the locks: address space, shm_data, manager
LockRank(l) == IF l[1] = "aspace" THEN 1 ELSE IF l[1] = "shm_data" THEN 2 ELSE 3

\* C33: the threads of one or of several processes that run shmget, shmat,
\* shmdt and shmctl never come to a state where each thread of some set waits
\* for a lock another thread of the set holds; a thread takes its locks in one
\* order (address space, shm_data, manager), an access to a user buffer
\* counting as taking the address space of the caller.
C33_NoDeadlock ==
    /\ ~Deadlocked
    /\ \A t \in ConcThreads :
           ~Returned(t) => \A l \in held[t] : LockRank(l) < LockRank(Needs(t))

\* C33 witness: one thread holds the address-space lock in shmat while another
\* thread of the same process holds the manager lock in shmctl
C33_Witness ==
    \E t, u \in ConcThreads :
        /\ lcall[t].pc = "at_wait_manager" /\ lcall[u].pc = "ctl_wait_aspace"
        /\ lcall[t].proc = lcall[u].proc

\* thread t is in shmdt, past dec_attach and before its test under the manager
\* lock, on the segment object o
DetachingObj(t) == attached[lcall[t].proc][lcall[t].addr].obj
Detaching(t) == lcall[t].pc = "dt_wait_manager"

\* C34: in every interleaving of the shmdt calls of different processes and
\* of shmctl(IPC_RMID) on one segment, every shmdt of a valid attachment
\* returns 0, and no shmdt finds the segment marked for deletion with attach
\* count 0 after another call has removed it from the registry, so the
\* segment is removed once.
C34_DetachAndRemoval ==
    \A t \in ConcThreads :
        /\ lcall[t].call = "shmdt" /\ lcall[t].pc = "done" /\ lcall[t].valid
           => lcall[t].err = "OK"
        /\ Detaching(t) /\ LockFree(ManagerLock) /\ DetachRemoves(shmObjs[DetachingObj(t)])
           => lcall[t].id \in DOMAIN segments

\* C34 witness: the threads of two processes are both past dec_attach in
\* shmdt on the same segment, which is marked for deletion
C34_Witness ==
    \E t, u \in ConcThreads :
        /\ lcall[t].proc # lcall[u].proc
        /\ Detaching(t) /\ Detaching(u)
        /\ DetachingObj(t) = DetachingObj(u)
        /\ shmObjs[DetachingObj(t)].marked

\* a shmdt of a valid attachment has returned ENOENT
ValidShmdtFailed ==
    \E t \in ConcThreads :
        lcall[t].call = "shmdt" /\ lcall[t].pc = "done" /\ lcall[t].valid
        /\ lcall[t].err = "ENOENT"

(***************************************************************************)
(* The interpreter redirections of the loader (core/src/mm.rs,            *)
(* load_user_app) under SpecExec.                                          *)
(***************************************************************************)
\* the path load_user_app re-enters with after reading path, if any
Redirection(fs, path) ==
    LET file_data == read(fs, path)
    IN  IF file_data.kind = "script" /\ file_data.utf8
        THEN Some(shebang_split(file_data.line)[1])
        ELSE IF file_data.kind = "elf" /\ file_data.interp.some
        THEN Some(remap_interp(canonicalize(file_data.interp.ent)))
        ELSE None

RECURSIVE RedirectedTo(_, _, _)
\* the paths reached from path by at most n redirections
RedirectedTo(fs, path, n) ==
    IF n = 0 \/ ~Redirection(fs, path).some THEN {path}
    ELSE {path} \cup RedirectedTo(fs, Redirection(fs, path).ent, n - 1)

\* the redirections from path come back to a path already read
InterpreterCycle(fs, path) ==
    \E p \in RedirectedTo(fs, path, Cardinality(ExecPaths)) :
        /\ Redirection(fs, p).some
        /\ p \in RedirectedTo(fs, Redirection(fs, p).ent, Cardinality(ExecPaths))

ExecveInputs ==
    {<<path, argv, envp, budget>> :
        path \in PathArgs, argv \in UNION {ArgvArgs(p) : p \in ExecPaths},
        envp \in EnvpArgs, budget \in 0..(MaxSegs + 2)}

\* C35: for every file system content and every argument, the interpreter
\* resolution of execve performs finitely many redirections and execve
\* returns, with success or with an error.
C35_LoaderTerminates ==
    \A i \in ExecveInputs : sys_execve(i[1], i[2], i[3], i[4]).err # "NORETURN"

\* an execve that was redirected to an interpreter has returned, in a file
\* system where another path is a script that names itself
C35_Witness ==
    /\ ret.op = "execve" /\ ret.err = "OK"
    /\ Redirection(files, exe_path).some
    /\ \E p \in ExecPaths : Redirection(files, p) = Some(p)

\* the calls that do not return are those whose redirections form a cycle
OnlyCyclesDiverge ==
    \A i \in ExecveInputs :
        LET r == sys_execve(i[1], i[2], i[3], i[4])
        IN  (r.err = "NORETURN") <=>
               /\ i[1].ok /\ i[2].ok /\ i[3].ok /\ nthreads <= 1
               /\ i[2].strs # <<>>
               /\ InterpreterCycle(files, i[1].str)

(***************************************************************************)
(* The bytes the copy loops of copy_file_range and splice take from the    *)
(* read side and give to the write side, under SpecIo.                     *)
(***************************************************************************)
\* how far the outcome r has advanced the read side of a call
ReadAdvance(r, fd_in, off_in) ==
    IF IsPipe(fd_in) THEN Len(pipeBuf) - Len(r.s.pipeBuf)
    ELSE IF off_in \in IoCells THEN r.s.uoff[off_in] - uoff[off_in]
    ELSE r.s.openFiles[ioFds[fd_in].obj].pos - openFiles[ioFds[fd_in].obj].pos

\* how far the outcome r has advanced the write side of a call
WriteAdvance(r, fd_out, off_out) ==
    IF IsPipe(fd_out) THEN Len(r.s.pipeBuf) - Len(pipeBuf)
    ELSE IF off_out \in IoCells THEN r.s.uoff[off_out] - uoff[off_out]
    ELSE r.s.openFiles[ioFds[fd_out].obj].pos - openFiles[ioFds[fd_out].obj].pos

BothAdvancedBy(r, fd_in, off_in, fd_out, off_out) ==
    r.err = "OK" => /\ r.val >= 0
                    /\ ReadAdvance(r, fd_in, off_in) = r.val
                    /\ WriteAdvance(r, fd_out, off_out) = r.val

\* the two sides of the call are one File object used through its position
SamePosition(fd_in, off_in, fd_out, off_out) ==
    /\ IsFile(fd_in) /\ IsFile(fd_out)
    /\ off_in = "null" /\ off_out = "null"
    /\ ioFds[fd_in].obj = ioFds[fd_out].obj

\* the pipe has room for every byte the call can read from the file
PipeHasRoom(fd_in, off_in, fd_out, len) ==
    (IsPipe(fd_out) /\ IsFile(fd_in) /\ off_in \in IoCells)
        => Len(pipeBuf) + Min(len, Max(0, FileSize(IoState, ioFds[fd_in].obj)
                                              - uoff[off_in])) <= PipeCap

IoCalls ==
    {<<fd_in, off_in, fd_out, off_out, len>> :
        fd_in \in DOMAIN ioFds, off_in \in IoPtrsIn,
        fd_out \in DOMAIN ioFds, off_out \in IoPtrsOut, len \in IoLens}

\* C36: when copy_file_range or splice returns n >= 0, the read side (the
\* source position, *off_in or the bytes taken from the input pipe) and the
\* write side have both advanced by exactly n, also when the write was
\* short: no byte read from the source is consumed without being written.
C36_NoDroppedBytes ==
    IoPreparing =>
        \A c \in IoCalls :
            /\ (\A p \in {c[2], c[4]} \cap IoCells : uoff[p] >= 0)
                  => BothAdvancedBy(sys_copy_file_range(IoState, ioFds, c[1], c[2],
                                                        c[3], c[4], c[5]),
                                    c[1], c[2], c[3], c[4])
            /\ BothAdvancedBy(sys_splice(IoState, ioFds, c[1], c[2], c[3], c[4], c[5]),
                              c[1], c[2], c[3], c[4])

\* a splice from a file of three bytes into the empty pipe of two has
\* returned 2 with *off_in moved from 0 to 3
C36_Witness ==
    /\ ret = Call("splice", "OK", 2)
    /\ pipeBuf = <<1, 2>> /\ uoff["a"] = 3

\* with room in the pipe and two distinct positions both sides advance by
\* the returned count
FullWritesKeepBytes ==
    IoPreparing =>
        \A c \in IoCalls :
            (~SamePosition(c[1], c[2], c[3], c[4]) /\ PipeHasRoom(c[1], c[2], c[3], c[5]))
               => /\ (\A p \in {c[2], c[4]} \cap IoCells : uoff[p] >= 0)
                        => BothAdvancedBy(sys_copy_file_range(IoState, ioFds, c[1],
                                                              c[2], c[3], c[4], c[5]),
                                          c[1], c[2], c[3], c[4])
                  /\ BothAdvancedBy(sys_splice(IoState, ioFds, c[1], c[2], c[3], c[4],
                                               c[5]),
                                    c[1], c[2], c[3], c[4])

(***************************************************************************)
(* The errors of shmdt, under SpecConc and, for one thread, under SpecShm. *)
(***************************************************************************)
\* thread t returns from a shmdt in this step
ShmdtReturns(t) ==
    /\ lcall'[t].call = "shmdt" /\ lcall'[t].pc = "done"
    /\ lcall[t].pc \in {"idle", "done", "dt_wait_manager"}
    /\ ret'.op = "shmdt"
    /\ \A u \in ConcThreads \ {t} : lcall'[u] = lcall[u]

\* the attachment tables, the attach counts and the registry are after the
\* step what they were before it
ShmdtLeftUnchanged ==
    /\ attached' = attached
    /\ segments' = segments /\ key_to_id' = key_to_id
    /\ \A o \in DOMAIN shmObjs :
           o \in DOMAIN shmObjs' /\ shmObjs'[o].nattch = shmObjs[o].nattch

\* C37: a shmdt with an address that is not the start address of an
\* attachment of the caller returns EINVAL, and every shmdt that returns an
\* error leaves the attachment table of the process, the attach count of
\* the segment and the registry unchanged.
C37_ShmdtErrors ==
    [][\A t \in ConcThreads :
           ShmdtReturns(t) =>
               /\ ~lcall'[t].valid => lcall'[t].err = "EINVAL"
               /\ lcall'[t].err # "OK" => ShmdtLeftUnchanged]_vars

\* a shmdt of an address that is no attachment has returned EINVAL in a
\* process that has an attachment
C37_Witness ==
    \E t \in ConcThreads :
        /\ lcall[t].call = "shmdt" /\ lcall[t].pc = "done"
        /\ ~lcall[t].valid /\ lcall[t].err = "EINVAL"
        /\ attached[lcall[t].proc] # EmptyMap
        /\ ret = Call("shmdt", "EINVAL", 0 - 1)

\* one thread: a shmdt fails only on an address that is no attachment, with
\* EINVAL and nothing changed
SequentialShmdtErrors ==
    \A p \in Procs : \A addr \in ShmDtAddrs(p) :
        LET r == sys_shmdt(p, addr)
        IN  /\ addr \notin DOMAIN attached[p] => r.err = "EINVAL" /\ ShmUnchanged(r)
            /\ addr \in DOMAIN attached[p] => r.err = "OK"

(***************************************************************************)
(* The dispatch of sys_shmctl on cmd, under SpecShm.                       *)
(***************************************************************************)
ShmCtlCmds == {IPC_RMID, IPC_SET, IPC_STAT}

\* what shmctl(shmid, cmd, buf) with the shm_perm perm in buf does on a
\* segment of the registry
ShmctlOnSegment(shmid, cmd, buf, perm) ==
    LET r == sys_shmctl(shmid, cmd, buf, perm)
        seg == SegOf(shmid)
    IN  /\ cmd \notin ShmCtlCmds => r.err = "EINVAL"
        /\ cmd = IPC_STAT /\ buf = "null" => r.err = "EFAULT"
        /\ cmd = IPC_RMID /\ MarkedAttached(shmid)
              => r.err = "OK" /\ r.val = 0 /\ ShmUnchanged(r)
        /\ cmd = IPC_SET /\ buf = "ok"
              => /\ r.err = "OK" /\ r.segments = segments
                 /\ r.shmObjs[segments[shmid]] =
                        [seg EXCEPT !.uid = perm.uid, !.gid = perm.gid,
                                    !.mode = perm.mode]
        /\ r.err # "OK" => RegistryUnchanged(r)

\* C38 as first stated: for any shmid, a cmd other than IPC_RMID, IPC_SET
\* and IPC_STAT returns EINVAL; IPC_STAT with a null buffer returns EFAULT;
\* IPC_RMID on a marked, still attached segment returns 0 without removing
\* it; IPC_SET replaces uid, gid and mode only; a failing shmctl changes
\* nothing in the registry.
C38_ShmctlDispatch ==
    \A shmid \in ShmIds, cb \in ShmCtlArgs, perm \in ShmPerms :
        LET r == sys_shmctl(shmid, cb[1], cb[2], perm)
        IN  /\ cb[1] \notin ShmCtlCmds => r.err = "EINVAL"
            /\ shmid \in DOMAIN segments => ShmctlOnSegment(shmid, cb[1], cb[2], perm)
            /\ r.err # "OK" => RegistryUnchanged(r)

\* C38 amended: a shmid that is not in the registry returns ENOENT for every
\* cmd and buffer; for a shmid of the registry the dispatch is as stated; a
\* failing shmctl changes nothing in the registry.
C38_ShmctlDispatchAmended ==
    \A shmid \in ShmIds, cb \in ShmCtlArgs, perm \in ShmPerms :
        LET r == sys_shmctl(shmid, cb[1], cb[2], perm)
        IN  /\ shmid \notin DOMAIN segments => r.err = "ENOENT"
            /\ shmid \in DOMAIN segments => ShmctlOnSegment(shmid, cb[1], cb[2], perm)
            /\ r.err # "OK" => RegistryUnchanged(r)

\* C38 witness: an IPC_SET on a marked and attached segment has returned 0,
\* the segment has the new uid and mode and is still marked and attached,
\* and an id removed earlier can be passed with an unknown cmd
C38_Witness ==
    /\ ret = Call("shmctl", "OK", 0)
    /\ \E id \in DOMAIN segments :
           /\ MarkedAttached(id)
           /\ SegOf(id).uid = 1 /\ SegOf(id).mode = 32
    /\ removedIds # {}

(***************************************************************************)
(* The fds epoll_wait reports when the buffer is shorter than the number   *)
(* of ready fds, under SpecWatchFair.                                      *)
(***************************************************************************)
\* the last call was an epoll_wait that reported fd
Reported(fd) ==
    /\ ret.op = "epoll_wait" /\ ret.err = "OK" /\ ret.val > 0
    /\ \E i \in 1..Len(evbuf) : evbuf[i].data = Cookie(fd)

\* C39: when the instance watches several fds that stay ready and the caller
\* keeps calling epoll_wait with maxevents smaller than the number of ready
\* fds, every fd that stays ready and subscribed is reported by some call
\* again and again: no watched fd is starved by the others.
C39_EpollWaitFair ==
    \A fd \in WatchedFds :
        <>[](fd \in ReadyFds /\ Cardinality(ReadyFds) > 1) => []<>Reported(fd)

\* C39 witness: three fds are ready and subscribed and an epoll_wait with
\* room for two events has reported the first two
C39_Witness ==
    /\ ReadyFds = WatchedFds
    /\ ret = Call("epoll_wait", "OK", 2)
    /\ Reported(0) /\ Reported(1) /\ ~Reported(2)

\* every epoll_wait that reports events starts with the lowest ready fd and
\* reports the ready fds in ascending order up to maxevents
LowestFirst ==
    [][(ret'.op = "epoll_wait" /\ ret'.err = "OK" /\ ret'.val > 0)
          => \A fd \in ReadyFds :
                 Cardinality({k \in ReadyFds : k <= fd}) <= ret'.val
                     => \E i \in 1..Len(evbuf') : evbuf'[i].data = Cookie(fd)]_vars

(***************************************************************************)
(* The postcondition and the frame of setpgid, under SpecPg.               *)
(***************************************************************************)
\* the group each process is a member of and the session of each process
\* and of each group are in s what they are now
MembershipUnchanged(s) ==
    /\ \A p \in Pids : s.processes[p].alive = processes[p].alive
    /\ \A p \in Pids : Alive(p) => /\ s.processes[p].pgid = processes[p].pgid
                                   /\ s.processes[p].sid = processes[p].sid
    /\ s.groups = groups

\* C40: when setpgid(pid, pgid) returns 0 the target P is a member of group
\* G, and G is a group of the session P was in and is still in; when it
\* returns an error no group membership and no session has changed;
\* repeating a successful setpgid with the same arguments returns 0 and
\* changes nothing.
C40_SetpgidFrame ==
    \A caller \in Pids, pid \in PidArgs, pgid \in PidArgs, created \in BOOLEAN,
       accepted \in BOOLEAN :
        LET P == IF pid = 0 THEN caller ELSE pid
            G == IF pgid = 0 THEN P ELSE pgid
            r == sys_setpgid(PgState, caller, pid, pgid, created, accepted)
        IN  Alive(caller) =>
            /\ r.err = "OK" =>
                  /\ P \in Pids /\ Alive(P) /\ G \in Pids
                  /\ r.s.processes[P].alive
                  /\ r.s.processes[P].pgid = G
                  /\ r.s.processes[P].sid = processes[P].sid
                  /\ r.s.groups[G] = processes[P].sid
                  /\ \A again \in BOOLEAN, taken \in BOOLEAN :
                         LET r2 == sys_setpgid(r.s, caller, pid, pgid, again, taken)
                         IN  r2.err = "OK" /\ r2.val = 0 /\ r2.s = r.s
            /\ r.err # "OK" => MembershipUnchanged(r.s) /\ PgUnchanged(r)

\* C40 witness: a setpgid has returned 0 and left a process other than init
\* in a group that another process leads, in a table with two sessions
C40_Witness ==
    /\ ret = Call("setpgid", "OK", 0)
    /\ \E p \in Pids \ {1}, q \in Pids \ {1} :
           /\ p # q /\ Alive(p) /\ Alive(q)
           /\ processes[p].pgid = q /\ processes[q].pgid = q
           /\ groups[q] = processes[p].sid
    /\ \E p \in Pids, q \in Pids :
           Alive(p) /\ Alive(q) /\ processes[p].sid # processes[q].sid

====
